---- MODULE Spec2Model ----
(***************************************************************************)
(* A model of the sandbox execution core of nat_sandbox_agent:             *)
(*   - the two BaseSandbox backends (DockerSandbox, DaytonaSandbox):       *)
(*     start / cleanup / run_command / read_file / write_file, with the    *)
(*     awaits of each coroutine as separate steps and time as ticks;       *)
(*   - the tool layer: _validate_path with the file tools, and             *)
(*     truncate_output with the tools that return text.                    *)
(* Several specifications share the module: Spec and LiveSpec (the sandbox *)
(* instance), PathSpec (the file tools and path validation), TruncSpec     *)
(* (truncate_output alone), OutputSpec (the tools that return text),       *)
(* FileSpec (write_file and read_file on a file system), ScopeSpec (the    *)
(* async context manager), LifeSpec (start and cleanup with the handles on *)
(* record), FactorySpec (configurations and the factory), SelectorSpec     *)
(* (_escape_css_selector), CallsSpec (tool calls that write and run a      *)
(* script) and GraphSpec (the agent graph).                                *)
(* Each leaves the variables it does not use at their idle values.         *)
(***************************************************************************)
EXTENDS Integers, Sequences, FiniteSets, TLC

VARIABLES
    backend,    \* which BaseSandbox subclass the instance is
    client,     \* self._client
    container,  \* self._container (docker) / self._sandbox (daytona)
    env,        \* the container / workspace as the engine holds it
    life,       \* the start() or cleanup() coroutine in flight
    hist,       \* how the most recent lifecycle call stands, as its caller saw it
    op,         \* the run_command / read_file / write_file coroutine in flight, or the last one
    ptool,      \* the tool call: its input, what it did and what it returned
    ttool,      \* a text and the results of truncating it again and again
    obs,        \* what is on record about the instance: its handles, its calls, its workspace
    scope,      \* the `async with sandbox:` block of a caller
    fsys,       \* the file system of the environment and the file operation on it
    factory,    \* a configuration, the host it is built on and what the factory made of it
    calls,      \* the code-execution tool calls on one sandbox and the script file they share
    sel,        \* a selector given to the browse tool and the text embedded for it
    graph       \* one invocation of the agent graph

sandboxVars == <<backend, client, container, env, life, hist, op>>
vars == <<backend, client, container, env, life, hist, op, ptool, ttool, obs, scope, fsys,
          factory, calls, sel, graph>>

(***************************************************************************)
(* Bounds of the model.  Time is counted in ticks of 1/TicksPerSec second, *)
(* so that fractional timeouts (run_command takes a float) are inputs.     *)
(***************************************************************************)
TicksPerSec == 2
MaxTimeoutTicks == 3

\* docker_sandbox.py:187  timeout=timeout + 5
OUTER_SLACK_SECONDS == 5
\* docker_sandbox.py:197  exit code of the coreutils timeout utility
TIMEOUT_UTILITY_EXIT == 124
\* exit status of a process killed with the container (128 + SIGKILL)
KILLED_EXIT == 128 + 9

None == "None"
Never == 0 - 1

Backends == {"docker", "daytona"}
Timeouts == 1..MaxTimeoutTicks
Durations == (0..(MaxTimeoutTicks + 1)) \cup {Never}
ExitCodes == {0, 1, TIMEOUT_UTILITY_EXIT}
OpKinds == {"run_command", "read_file", "write_file"}


----------------------------------------------------------------------------
(***************************************************************************)
(* Lifecycle: DockerSandbox.start / cleanup, DaytonaSandbox.start /        *)
(* cleanup.  life.pc names the await the coroutine is suspended at.        *)
(***************************************************************************)
IdleLife == [call |-> "none", pc |-> "none"]

\* The record kept about an instance when one is kept (on): the outcome of the
\* lifecycle call before the current one (prev), the client handle acquired
\* last (conn: open, closed, or dropped when the reference was cleared without
\* a close), whether a handle was replaced while open (leaked) or closed by
\* start() (bystart), whether the workspace directories exist in the
\* environment (dirs), and the engine / SDK call made last with the thread
\* that ran it (call, thread).
IdleObs == [on |-> FALSE, prev |-> "none", conn |-> "none", leaked |-> FALSE,
            bystart |-> FALSE, dirs |-> FALSE, call |-> "none", thread |-> "none"]

Observe(new) == obs' = IF obs.on THEN new ELSE obs

Called(o, call, thread) == [o EXCEPT !.call = call, !.thread = thread]

IdleScope == [pc |-> "off", starts |-> 0, cleanups |-> 0, exc |-> FALSE]

\* A configuration in the making (via, type, api_key, server_url, target,
\* environment, pass_env_vars), the host environment it is made on (host), how
\* far the factory got (pc, outcome), the instance it built (inst), the
\* engine / network calls made so far (engine) and, for the cloud backend, the
\* clients built by _get_client, its calls, the client it returned last and
\* the configuration that client was built from (built, gets, returned, config).
NoInstance == [class |-> "none", client |-> "None", handle |-> "None",
               api_key |-> "none", server_url |-> "none", target |-> "none",
               environment |-> <<>>]

IdleFactory == [pc |-> "off", via |-> "none", type |-> "none", api_key |-> "none",
                server_url |-> "none", target |-> "none", environment |-> <<>>,
                pass_env_vars |-> <<>>, host |-> <<>>, outcome |-> "none",
                inst |-> NoInstance, engine |-> 0, built |-> 0, gets |-> 0,
                returned |-> "none", config |-> <<>>]

\* One tool call that writes a script and runs it: the tool and the code it
\* was given, where its coroutine stands (pc), the steps it has taken, how
\* the write went, the content the interpreter read (ran) and its exit code
\* (rc), how the listing went, and what the caller got (status,
\* generated_files).
IdleCall == [pc |-> "idle", tool |-> "none", code |-> "none", steps |-> <<>>,
             wrote |-> "none", ran |-> "none", rc |-> 0, listed |-> "none",
             status |-> "none", generated_files |-> {}]

\* The tool calls in flight on one sandbox with the files of that sandbox:
\* the content at each script path and the names in /workspace/output.
IdleCalls == [on |-> FALSE, call |-> <<>>, script |-> <<>>, output |-> {}]

\* The browse tool building its script: the selector it was given, whether a
\* selector was embedded in the script and the text embedded for it.
IdleSel == [pc |-> "off", selector |-> <<>>, embedded |-> FALSE, safe_selector |-> <<>>]

\* One invocation of the agent graph: the node that runs next (pc), the
\* configured max_iterations, AgentState (iteration_count, the number of
\* messages, the tool calls of the last message), the LLM calls and graph
\* steps made so far, and whether the last agent step took the limit branch.
IdleGraph == [pc |-> "off", max_iterations |-> 0, iteration_count |-> 0,
              messages |-> 0, tool_calls |-> 0, llm_calls |-> 0, steps |-> 0,
              limited |-> FALSE]

\* The file system of the environment (dirs, files) and one write_file /
\* read_file pair on it: the arguments (path, content), what write_file
\* computed (name, dir_path, data), how each call ended (wrote, read, got),
\* whether the path existed when it was read (existed) and whether the
\* engine failed a call it was sent (faults).
IdleFsys == [pc |-> "off", dirs |-> {}, files |-> {}, path |-> <<>>, content |-> <<>>,
             name |-> <<>>, dir_path |-> <<>>, data |-> <<>>, wrote |-> "none",
             read |-> "none", got |-> <<>>, existed |-> FALSE, faults |-> FALSE]

\* The operation record.  While the call is in flight: its arguments and the
\* command's behaviour (timeout, dur, code, ign, hang), the time since the call
\* (elapsed), the process (proc) and whether the in-environment limit has fired
\* (inner).  Once it is over: what the caller got (result, exit_code, stderr),
\* whether the engine was called (engine), whether the command was started
\* (ran), whether its process was running at an instant later than the timeout
\* of the call (over) and whether it was still running at the return (alive).
IdleOp == [kind |-> "none", pc |-> "idle", pre |-> "fresh", timeout |-> 0,
           dur |-> 0, code |-> 0, ign |-> FALSE, hang |-> FALSE,
           elapsed |-> 0, proc |-> "none", inner |-> FALSE, engine |-> FALSE,
           result |-> "none", exit_code |-> 0, stderr |-> "none",
           ran |-> FALSE, over |-> FALSE, alive |-> FALSE]

\* The outcome of a finished operation is on record until the next call of
\* any kind begins.
Forget(o) == IF o.pc = "done" THEN IdleOp ELSE o

\* start(): the coroutine begins; nothing is assigned before the first call.
\* (The callers modelled do not call start() while an operation is in flight.)
StartBegin ==
    /\ life.call = "none"
    /\ op.pc \in {"idle", "done"}
    /\ life' = [call |-> "start", pc |-> "s_client"]
    /\ hist' = "starting"
    /\ op' = Forget(op)
    /\ Observe([obs EXCEPT !.prev = hist])
    /\ UNCHANGED <<backend, client, container, env, ptool, ttool, fsys, factory, calls, sel, graph>>

StartCall == StartBegin /\ UNCHANGED scope

\* An except clause that logs and re-raises on both backends (a variant).
StartRaises_OnlyLogs(c) ==
    /\ client' = c
    /\ life' = IdleLife
    /\ hist' = "start_failed"

\* The except clause of start(): docker closes and clears the client,
\* daytona only logs; both re-raise.  self._container is left as it is.
StartRaises(c) ==
    /\ client' = IF backend = "docker" THEN None ELSE c
    /\ life' = IdleLife
    /\ hist' = "start_failed"

\* `if self._client: self._client.close()` in that except clause.
ClosedByStart(o) ==
    IF backend = "docker" /\ client # None
      THEN [o EXCEPT !.conn = "closed", !.bystart = TRUE]
      ELSE o

\* `self._client = docker.from_env()` builds a client whatever the attribute
\* held; _get_client builds one only `if self._client is None`.
Acquired(o) ==
    IF backend = "docker" \/ client = None
      THEN [o EXCEPT !.conn = "open", !.leaked = @ \/ (client # None)]
      ELSE o

\* docker.from_env() / _get_client(): the client handle is assigned on success.
StartClientOk ==
    /\ life = [call |-> "start", pc |-> "s_client"]
    /\ client' = "open"
    /\ life' = [life EXCEPT !.pc = IF backend = "docker" THEN "s_image" ELSE "s_create"]
    /\ Observe(Called(Acquired(obs), "client", "loop"))
    /\ UNCHANGED <<backend, container, env, hist, op, ptool, ttool, scope, fsys,
                   factory, calls, sel, graph>>

\* from_env() raises, or daytona_sdk cannot be imported (only when the client
\* is not yet built: _get_client returns an existing one without a call).
StartClientFails ==
    /\ life = [call |-> "start", pc |-> "s_client"]
    /\ backend = "daytona" => client = None
    /\ StartRaises(client)
    /\ Observe(Called(ClosedByStart(obs), "client", "loop"))
    /\ UNCHANGED <<backend, container, env, op, ptool, ttool, scope, fsys,
                   factory, calls, sel, graph>>

\* self._client.images.get(self._image), called in the coroutine itself; when
\* it raises ImageNotFound the image is pulled.
StartImageOk(found) ==
    /\ life = [call |-> "start", pc |-> "s_image"]
    /\ life' = [life EXCEPT !.pc = IF found THEN "s_create" ELSE "s_pull"]
    /\ Observe(Called(obs, "images.get", "loop"))
    /\ UNCHANGED <<backend, client, container, env, hist, op, ptool, ttool, scope, fsys,
                   factory, calls, sel, graph>>

\* images.get() raises something other than ImageNotFound.
StartImageFails ==
    /\ life = [call |-> "start", pc |-> "s_image"]
    /\ StartRaises(client)
    /\ Observe(Called(ClosedByStart(obs), "images.get", "loop"))
    /\ UNCHANGED <<backend, container, env, op, ptool, ttool, scope, fsys,
                   factory, calls, sel, graph>>

\* await run_in_executor(None, self._client.images.pull, self._image)
StartPullOk ==
    /\ life = [call |-> "start", pc |-> "s_pull"]
    /\ life' = [life EXCEPT !.pc = "s_create"]
    /\ Observe(Called(obs, "images.pull", "worker"))
    /\ UNCHANGED <<backend, client, container, env, hist, op, ptool, ttool, scope, fsys,
                   factory, calls, sel, graph>>

StartPullFails ==
    /\ life = [call |-> "start", pc |-> "s_pull"]
    /\ StartRaises(client)
    /\ Observe(Called(ClosedByStart(obs), "images.pull", "worker"))
    /\ UNCHANGED <<backend, container, env, op, ptool, ttool, scope, fsys,
                   factory, calls, sel, graph>>

\* containers.create(**config) / client.create(params): the handle is assigned.
\* A daytona workspace is created running; a docker container is created
\* stopped, under the instance's name, which the engine gives to one container
\* at a time.  The new environment holds what its image holds.
StartCreateOk ==
    /\ life = [call |-> "start", pc |-> "s_create"]
    /\ backend = "docker" => env \notin {"created", "running"}
    /\ container' = "set"
    /\ env' = IF backend = "docker" THEN "created" ELSE "running"
    /\ life' = [life EXCEPT !.pc = IF backend = "docker" THEN "s_start" ELSE "s_init"]
    /\ Observe([Called(obs, "create", "worker") EXCEPT !.dirs = FALSE])
    /\ UNCHANGED <<backend, client, hist, op, ptool, ttool, scope, fsys,
                   factory, calls, sel, graph>>

StartCreateFails ==
    /\ life = [call |-> "start", pc |-> "s_create"]
    /\ StartRaises(client)
    /\ Observe(Called(ClosedByStart(obs), "create", "worker"))
    /\ UNCHANGED <<backend, container, env, op, ptool, ttool, scope, fsys,
                   factory, calls, sel, graph>>

\* self._container.start (docker only)
StartContainerOk ==
    /\ life = [call |-> "start", pc |-> "s_start"]
    /\ env' = "running"
    /\ life' = [life EXCEPT !.pc = "s_init"]
    /\ Observe(Called(obs, "start", "worker"))
    /\ UNCHANGED <<backend, client, container, hist, op, ptool, ttool, scope, fsys,
                   factory, calls, sel, graph>>

StartContainerFails ==
    /\ life = [call |-> "start", pc |-> "s_start"]
    /\ StartRaises(client)
    /\ Observe(Called(ClosedByStart(obs), "start", "worker"))
    /\ UNCHANGED <<backend, container, env, op, ptool, ttool, scope, fsys,
                   factory, calls, sel, graph>>

\* What `mkdir -p /workspace/input ...` can come to inside run_command: it
\* runs and exits 0, it exits non-zero, it times out, the exec is not dispatched.
InitOutcomes == {"ok", "nonzero", "timeout", "dispatch"}

\* await self.run_command(WORKSPACE_INIT_COMMAND): its CommandResult is
\* dropped, and run_command raises only when the handle is unset, so start()
\* returns normally whatever the command did.
StartInitDone(out) ==
    /\ life = [call |-> "start", pc |-> "s_init"]
    /\ out \in InitOutcomes
    /\ IF container = None
         THEN /\ StartRaises(client)
              /\ Observe(ClosedByStart(obs))
         ELSE /\ life' = IdleLife
              /\ hist' = "started"
              /\ Observe([Called(obs, "exec", "worker") EXCEPT !.dirs = @ \/ (out = "ok")])
              /\ UNCHANGED client
    /\ UNCHANGED <<backend, container, env, op, ptool, ttool, scope, fsys,
                   factory, calls, sel, graph>>

\* The process of a command in flight dies with its container.
\* (the in-container timeout utility dies with it, so the exec reports the kill).
KillWithContainer(o) ==
    IF o.proc = "running"
      THEN [o EXCEPT !.proc = "exited", !.code = KILLED_EXIT, !.inner = FALSE]
      ELSE o

\* `self._container = None` / `self._sandbox = None` after the removal returned.
HandleAfterRemove_Kept(h) == h

HandleAfterRemove(h) == None

\* cleanup(): `if self._container:` / `if self._sandbox:` is false, nothing is done.
CleanupSkips ==
    /\ life.call = "none"
    /\ container = None
    /\ hist' = "cleaned"
    /\ op' = Forget(op)
    /\ Observe([obs EXCEPT !.prev = hist])
    /\ UNCHANGED <<backend, client, container, env, life, ptool, ttool, fsys,
                   factory, calls, sel, graph>>

CleanupNoop == CleanupSkips /\ UNCHANGED scope

\* cleanup() with a handle: the removal / deletion call is handed to the executor.
CleanupBegins ==
    /\ life.call = "none"
    /\ container # None
    /\ life' = [call |-> "cleanup", pc |-> "c_remove"]
    /\ hist' = "cleaning"
    /\ op' = Forget(op)
    /\ Observe([obs EXCEPT !.prev = hist])
    /\ UNCHANGED <<backend, client, container, env, ptool, ttool, fsys, factory, calls, sel, graph>>

CleanupCall == CleanupBegins /\ UNCHANGED scope

\* The finally clause of cleanup(): docker closes the client it holds and
\* clears the attribute; daytona clears the attribute.
TornDown(o) ==
    IF client = None THEN o
    ELSE [o EXCEPT !.conn = IF backend = "docker" THEN "closed" ELSE "dropped"]

\* remove(force=True) / delete() returned: handle cleared, then the finally clause.
CleanupRemoveOk ==
    /\ life = [call |-> "cleanup", pc |-> "c_remove"]
    /\ env # "removed"
    /\ env' = "removed"
    /\ container' = HandleAfterRemove(container)
    /\ client' = None
    /\ op' = KillWithContainer(op)
    /\ life' = IdleLife
    /\ hist' = "cleaned"
    /\ Observe([Called(TornDown(obs), "remove", "worker") EXCEPT !.dirs = FALSE])
    /\ UNCHANGED <<backend, ptool, ttool, scope, fsys, factory, calls, sel, graph>>

\* docker: remove() raised NotFound (the container is already gone): handle cleared.
CleanupNotFound ==
    /\ life = [call |-> "cleanup", pc |-> "c_remove"]
    /\ backend = "docker"
    /\ env = "removed"
    /\ container' = None
    /\ client' = None
    /\ life' = IdleLife
    /\ hist' = "cleaned"
    /\ Observe(Called(TornDown(obs), "remove", "worker"))
    /\ UNCHANGED <<backend, env, op, ptool, ttool, scope, fsys, factory, calls, sel, graph>>

\* The removal / deletion call raised anything else (for daytona: anything):
\* the handle is kept, the finally clause clears the client, the error is
\* re-raised.  The engine may or may not have removed the environment
\* (removed = TRUE: the reply was lost after the engine acted).
CleanupFails(removed) ==
    /\ life = [call |-> "cleanup", pc |-> "c_remove"]
    /\ env = "removed" => removed
    /\ env' = IF removed THEN "removed" ELSE env
    /\ op' = IF removed /\ env # "removed" THEN KillWithContainer(op) ELSE op
    /\ client' = None
    /\ life' = IdleLife
    /\ hist' = "cleanup_failed"
    /\ Observe([Called(TornDown(obs), "remove", "worker")
                   EXCEPT !.dirs = IF removed THEN FALSE ELSE @])
    /\ UNCHANGED <<backend, container, ptool, ttool, scope, fsys, factory, calls, sel, graph>>

----------------------------------------------------------------------------
(***************************************************************************)
(* run_command.  op.timeout is the `timeout` argument in ticks; the        *)
(* command is described by what it would do left alone: its duration       *)
(* (Never: it does not exit), its exit code, whether it ignores SIGTERM,   *)
(* and whether the engine call that carries it ever completes.             *)
(***************************************************************************)
\* `if not self._container: raise RuntimeError("Sandbox not started")`
NotStarted == container = None

\* timeout_int = int(timeout), in seconds
timeout_int(t) == t \div TicksPerSec

\* The limit inside the environment, in ticks: `timeout {timeout_int}` in the
\* container (docker), timeout=int(timeout) given to process.exec (daytona).
\* A duration of 0 disables the limit.
InnerTicks(t) == timeout_int(t) * TicksPerSec

InnerLimited(t) == InnerTicks(t) > 0

\* The caller-side wait of asyncio.wait_for, in ticks.
OuterTicks(b, t) ==
    IF b = "docker" THEN t + OUTER_SLACK_SECONDS * TicksPerSec ELSE t

InFlight == op.pc \in {"queued", "exec"}

RunInFlight == op.kind = "run_command" /\ InFlight

\* A CommandResult handed back to the caller of run_command.
Returned(o, ec, se) ==
    [IdleOp EXCEPT !.kind = o.kind, !.pre = o.pre, !.timeout = o.timeout,
                   !.engine = o.engine, !.pc = "done",
                   !.result = "returned", !.exit_code = ec, !.stderr = se,
                   !.ran = (o.proc # "none"), !.over = o.over,
                   !.alive = (o.proc = "running")]

\* An exception leaving the operation.
Raised(o, what) ==
    [IdleOp EXCEPT !.kind = o.kind, !.pre = o.pre, !.engine = o.engine,
                   !.pc = "done", !.result = what]

\* The guard fails: RuntimeError("Sandbox not started"), nothing else is done.
OpNotStarted(k) ==
    /\ op.pc \in {"idle", "done"}
    /\ k \in OpKinds
    /\ NotStarted
    /\ op' = Raised([IdleOp EXCEPT !.kind = k, !.pre = hist], "not_started")
    /\ UNCHANGED <<backend, client, container, env, life, hist, ptool, ttool, obs, scope, fsys,
                   factory, calls, sel, graph>>

\* One representative of each command: the exit code of a command that never
\* exits or whose engine call never completes is never seen, and SIGTERM
\* reaches only a command that outlives an in-environment limit.
Command(t, d, c, ig, hg) ==
    /\ (d = Never \/ hg) => c = 0
    /\ ig => (InnerLimited(t) /\ (d = Never \/ d >= InnerTicks(t)))

\* run_command(command, timeout=t): the guard passes and the exec is handed
\* to the executor.
RunCommandCall(t, d, c, ig, hg) ==
    /\ op.pc \in {"idle", "done"}
    /\ ~NotStarted
    /\ Command(t, d, c, ig, hg)
    /\ op' = [IdleOp EXCEPT !.kind = "run_command", !.pre = hist,
                            !.pc = "queued", !.timeout = t, !.dur = d,
                            !.code = c, !.ign = ig, !.hang = hg]
    /\ UNCHANGED <<backend, client, container, env, life, hist, ptool, ttool, obs, scope, fsys,
                   factory, calls, sel, graph>>

\* The worker thread evaluates self._container.exec_run(...) /
\* self._sandbox.process.exec(...): the attribute is read now, not at the guard.
\* A cleared handle raises AttributeError, an environment that is not running
\* makes the engine reject the exec; `except Exception` turns both into a result.
ExecDispatch ==
    /\ RunInFlight /\ op.pc = "queued"
    /\ op' = IF container = None
               THEN Returned(op, -1, "exc")
             ELSE IF env # "running"
               THEN Returned([op EXCEPT !.engine = TRUE], -1, "exc")
             ELSE [op EXCEPT !.pc = "exec", !.engine = TRUE, !.proc = "running"]
    /\ Observe(Called(obs, "exec", "worker"))
    /\ UNCHANGED <<backend, client, container, env, life, hist, ptool, ttool, scope, fsys,
                   factory, calls, sel, graph>>

\* The engine / transport fails the exec call of a running environment.
ExecDispatchFails ==
    /\ RunInFlight /\ op.pc = "queued"
    /\ container # None /\ env = "running"
    /\ op' = Returned([op EXCEPT !.engine = TRUE], -1, "exc")
    /\ Observe(Called(obs, "exec", "worker"))
    /\ UNCHANGED <<backend, client, container, env, life, hist, ptool, ttool, scope, fsys,
                   factory, calls, sel, graph>>

ExitDue == op.proc = "running" /\ op.dur # Never /\ op.elapsed >= op.dur

InnerDue ==
    /\ op.proc = "running" /\ ~op.inner
    /\ InnerLimited(op.timeout) /\ op.elapsed >= InnerTicks(op.timeout)
    /\ backend = "daytona" => ~op.hang

ReturnDue == op.pc = "exec" /\ op.proc = "exited" /\ ~op.hang

\* asyncio.wait_for(..., timeout=...) around the executor future
OuterDue_NoWaitFor == FALSE

OuterDue == InFlight /\ op.elapsed >= OuterTicks(backend, op.timeout)

\* The command exits by itself.
ProcExits ==
    /\ RunInFlight /\ ExitDue
    /\ op' = [op EXCEPT !.proc = "exited"]
    /\ UNCHANGED <<backend, client, container, env, life, hist, ptool, ttool, obs, scope, fsys,
                   factory, calls, sel, graph>>

\* docker: the in-container `timeout N` expires and sends SIGTERM.  A command
\* that ignores it keeps running and the utility keeps waiting for it.
InnerTimeoutFires ==
    /\ RunInFlight /\ backend = "docker" /\ InnerDue
    /\ op' = [op EXCEPT !.inner = TRUE,
                        !.proc = IF op.ign THEN "running" ELSE "exited"]
    /\ UNCHANGED <<backend, client, container, env, life, hist, ptool, ttool, obs, scope, fsys,
                   factory, calls, sel, graph>>

\* daytona: the limit given to process.exec expires and the SDK call raises;
\* `except Exception` returns exit_code -1 with str(e).  Whether the remote
\* process is stopped is the service's business.
SdkTimeoutFires(killed) ==
    /\ RunInFlight /\ backend = "daytona" /\ InnerDue
    /\ op' = Returned([op EXCEPT !.inner = TRUE,
                                 !.proc = IF killed THEN "exited" ELSE "running"],
                      -1, "sdk_timeout")
    /\ UNCHANGED <<backend, client, container, env, life, hist, ptool, ttool, obs, scope, fsys,
                   factory, calls, sel, graph>>

\* The exit code exec_run reports: the utility's 124 once it has timed out.
ExecExitCode(o) == IF o.inner THEN TIMEOUT_UTILITY_EXIT ELSE o.code

\* docker: `if exit_code == 124:` gives the timed-out result, anything else passes.
DockerResult(o) ==
    IF ExecExitCode(o) = TIMEOUT_UTILITY_EXIT
      THEN Returned(o, -1, "timeout_msg")
      ELSE Returned(o, ExecExitCode(o), "proc")

\* daytona: CommandResult(exit_code=result.exit_code, stdout=..., stderr="")
DaytonaResult(o) == Returned(o, o.code, "none")

\* The engine call completes and run_command builds its result.
ExecReturns ==
    /\ RunInFlight /\ ReturnDue
    /\ op' = IF backend = "docker" THEN DockerResult(op) ELSE DaytonaResult(op)
    /\ UNCHANGED <<backend, client, container, env, life, hist, ptool, ttool, obs, scope, fsys,
                   factory, calls, sel, graph>>

\* asyncio.wait_for expires: `except TimeoutError` returns the timed-out
\* result.  The worker thread, and the process, are left as they are.
OuterTimeoutFires ==
    /\ RunInFlight /\ OuterDue
    /\ op' = Returned(op, -1, "timeout_msg")
    /\ UNCHANGED <<backend, client, container, env, life, hist, ptool, ttool, obs, scope, fsys,
                   factory, calls, sel, graph>>

Min(S) == CHOOSE x \in S : \A y \in S : x <= y

\* The next instant at which something is due for the call in flight.
NextEvent(o) ==
    Min({OuterTicks(backend, o.timeout)}
        \cup (IF o.proc = "running" /\ o.dur # Never THEN {o.dur} ELSE {})
        \cup (IF /\ o.proc = "running" /\ ~o.inner /\ InnerLimited(o.timeout)
                  /\ (backend = "daytona" => ~o.hang)
               THEN {InnerTicks(o.timeout)} ELSE {}))

\* Time passes for the call in flight, once everything due now has happened,
\* up to the next instant at which something is due.
Tick ==
    /\ RunInFlight /\ op.pc = "exec"
    /\ ~ExitDue /\ ~InnerDue /\ ~ReturnDue /\ ~OuterDue
    /\ op' = [op EXCEPT !.elapsed = NextEvent(op),
                        !.over = @ \/ (op.proc = "running" /\ NextEvent(op) > op.timeout)]
    /\ UNCHANGED <<backend, client, container, env, life, hist, ptool, ttool, obs, scope, fsys,
                   factory, calls, sel, graph>>

(***************************************************************************)
(* read_file / write_file: the same guard, then the transfer on a worker   *)
(* thread, which reads the handle when it runs.                            *)
(***************************************************************************)
\* The transfer call of a file operation: get_archive with the extraction
\* (_extract_from_archive), put_archive; download_file, upload_file.
TransferCall(b, k) ==
    IF b = "docker"
      THEN (IF k = "read_file" THEN "get_archive" ELSE "put_archive")
      ELSE (IF k = "read_file" THEN "download_file" ELSE "upload_file")

\* The guard passes.  DockerSandbox.write_file builds the tar archive in the
\* coroutine before its first await.
FileOpCall(k) ==
    /\ op.pc \in {"idle", "done"}
    /\ k \in {"read_file", "write_file"}
    /\ ~NotStarted
    /\ op' = [IdleOp EXCEPT !.kind = k, !.pre = hist, !.pc = "queued"]
    /\ Observe(IF backend = "docker" /\ k = "write_file"
                 THEN Called(obs, "tarfile", "loop") ELSE obs)
    /\ UNCHANGED <<backend, client, container, env, life, hist, ptool, ttool, scope, fsys,
                   factory, calls, sel, graph>>

FileOpDone(ok) ==
    /\ op.kind \in {"read_file", "write_file"} /\ op.pc = "queued"
    /\ op' = IF container = None
               THEN Raised(op, "raised")
             ELSE IF ok /\ env = "running"
               THEN Returned([op EXCEPT !.engine = TRUE], 0, "none")
             ELSE Raised([op EXCEPT !.engine = TRUE], "raised")
    /\ Observe(Called(obs, TransferCall(backend, op.kind), "worker"))
    /\ UNCHANGED <<backend, client, container, env, life, hist, ptool, ttool, scope, fsys,
                   factory, calls, sel, graph>>

----------------------------------------------------------------------------
(***************************************************************************)
(* Text.  A text is a sequence of characters.  In a path the character     *)
(* "w" stands for the nine characters of "workspace" and "x" for any other *)
(* run of name characters, so <<"/","w","x","/","x">> is /workspace2/x.    *)
(***************************************************************************)
MaxPathLen == 7
MaxChars == 2
MaxTextLen == 36
MaxTruncations == 2

PathChars == {"/", ".", "w", "x"}
Paths == UNION {[1..n -> PathChars] : n \in 0..MaxPathLen}

Rep(c, n) == [i \in 1..n |-> c]
Texts == {Rep("A", n) : n \in 0..MaxTextLen}

StartsWith(s, pre) == Len(s) >= Len(pre) /\ SubSeq(s, 1, Len(pre)) = pre

\* str.split("/")
RECURSIVE Split(_)
Split(s) ==
    IF s = <<>> THEN << <<>> >>
    ELSE LET rest == Split(Tail(s))
         IN  IF Head(s) = "/"
               THEN << <<>> >> \o rest
               ELSE << <<Head(s)>> \o Head(rest) >> \o Tail(rest)

\* "/".join(comps)
RECURSIVE Join(_)
Join(comps) ==
    IF comps = <<>> THEN <<>>
    ELSE IF Len(comps) = 1 THEN comps[1]
    ELSE comps[1] \o <<"/">> \o Join(Tail(comps))

Dot == <<".">>
DotDot == <<".", ".">>

\* posixpath.normpath: the number of leading slashes it keeps
InitialSlashes(path) ==
    IF ~StartsWith(path, <<"/">>) THEN 0
    ELSE IF StartsWith(path, <<"/", "/">>) /\ ~StartsWith(path, <<"/", "/", "/">>) THEN 2
    ELSE 1

\* posixpath.normpath: the loop over the components
RECURSIVE NormComps(_, _, _)
NormComps(comps, new_comps, initial_slashes) ==
    IF comps = <<>> THEN new_comps
    ELSE LET comp == Head(comps)
             n == Len(new_comps)
             next ==
                IF comp \in {<<>>, Dot} THEN new_comps
                ELSE IF \/ comp # DotDot
                        \/ (initial_slashes = 0 /\ n = 0)
                        \/ (n > 0 /\ new_comps[n] = DotDot)
                  THEN Append(new_comps, comp)
                ELSE IF n > 0 THEN SubSeq(new_comps, 1, n - 1)
                ELSE new_comps
         IN  NormComps(Tail(comps), next, initial_slashes)

\* posixpath.normpath(path)
normpath(path) ==
    IF path = <<>> THEN Dot
    ELSE LET k == InitialSlashes(path)
             joined == Rep("/", k) \o Join(NormComps(Split(path), <<>>, k))
         IN  IF joined = <<>> THEN Dot ELSE joined

\* PurePosixPath(s): the root ("", "/" or "//", as its length) and the parts
\* after it; empty and "." components are dropped, ".." is kept.
RECURSIVE DropLeadingSlashes(_)
DropLeadingSlashes(s) ==
    IF s # <<>> /\ Head(s) = "/" THEN DropLeadingSlashes(Tail(s)) ELSE s

PurePosixPath(s) ==
    LET rest == DropLeadingSlashes(s)
        k == Len(s) - Len(rest)
    IN  [root |-> IF k = 0 THEN 0 ELSE IF k = 2 THEN 2 ELSE 1,
         parts |-> SelectSeq(Split(rest), LAMBDA c : c \notin {<<>>, Dot})]

\* ALLOWED_BASE_PATHS = (PurePosixPath("/workspace"),)
ALLOWED_BASE_PATHS == {PurePosixPath(<<"/", "w">>)}

is_absolute(n) == n.root # 0

\* PurePosixPath.parents: the path with its last parts removed, one or more
parents(n) ==
    {[root |-> n.root, parts |-> SubSeq(n.parts, 1, k)] : k \in 0..(Len(n.parts) - 1)}

\* PurePosixPath.as_posix()
as_posix(n) ==
    IF n.root = 0 /\ n.parts = <<>> THEN Dot
    ELSE Rep("/", n.root) \o Join(n.parts)

\* `normalized == base or base in normalized.parents` for some allowed base
InAllowed_StringPrefix(n) ==
    \E base \in ALLOWED_BASE_PATHS : StartsWith(as_posix(n), as_posix(base))

InAllowed(n) ==
    \E base \in ALLOWED_BASE_PATHS : n = base \/ base \in parents(n)

\* `return normalized.as_posix()`
ReturnedPath_Raw(path, normalized) == path

ReturnedPath(path, normalized) == as_posix(normalized)

\* _validate_path(path): the normalized path, or the ValueError raised
_validate_path(path) ==
    LET normalized == PurePosixPath(normpath(path))
    IN  IF ~is_absolute(normalized)
          THEN [ok |-> FALSE, value |-> <<>>, error |-> "not_absolute"]
        ELSE IF ~InAllowed(normalized)
          THEN [ok |-> FALSE, value |-> <<>>, error |-> "outside"]
        ELSE [ok |-> TRUE, value |-> ReturnedPath(path, normalized), error |-> "none"]

(***************************************************************************)
(* truncate_output and SandboxToolExecutor.truncate                        *)
(***************************************************************************)
Digit(d) == <<"0", "1", "2", "3", "4", "5", "6", "7", "8", "9">>[d + 1]

\* str(n) for n >= 0
RECURSIVE Decimal(_)
Decimal(n) == IF n < 10 THEN <<Digit(n)>> ELSE Decimal(n \div 10) \o <<Digit(n % 10)>>

\* f"\n... (truncated, {n} total chars)"
Marker(n) ==
    <<"\n", ".", ".", ".", " ", "(", "t", "r", "u", "n", "c", "a", "t", "e", "d", ",", " ">>
        \o Decimal(n)
        \o <<" ", "t", "o", "t", "a", "l", " ", "c", "h", "a", "r", "s", ")">>

\* truncate_output(text, max_chars)
truncate_output_NoMarker(text, max_chars) ==
    IF Len(text) > max_chars THEN SubSeq(text, 1, max_chars) ELSE text

truncate_output(text, max_chars) ==
    IF Len(text) > max_chars
      THEN SubSeq(text, 1, max_chars) \o Marker(Len(text))
      ELSE text

(***************************************************************************)
(* The file tools: read_file(executor, path), write_file(executor, path,   *)
(* content) of tools/sandbox/file_ops.py.  The sandbox below them is given *)
(* by what its method does when called: return, raise FileNotFoundError,   *)
(* raise another exception.                                                *)
(***************************************************************************)
IdleTool == [pc |-> "off", name |-> "none", path |-> <<>>, max |-> 0,
             valid |-> FALSE, called |-> FALSE, arg |-> <<>>,
             status |-> "none", ret |-> <<>>, texts |-> {}, failed |-> FALSE,
             exit_code |-> 0]

IdleTrunc == [pc |-> "off", max |-> 0, hist |-> <<>>]

\* One text handed back to the caller: the field, the text the sandbox gave
\* and the text returned for it.
Text(field, raw, out) == [field |-> field, raw |-> raw, out |-> out]

\* The call is over: what was done and what the caller holds.
ToolDone(t, name, v, called, status, ret, texts) ==
    [t EXCEPT !.pc = "done", !.name = name, !.valid = v.ok, !.called = called,
              !.arg = IF called THEN v.value ELSE <<>>,
              !.status = status, !.ret = ret, !.texts = texts]

\* The sandbox operation under the tool raised (run_command, read_file or
\* write_file; "Sandbox not started" is one such exception).
SandboxRaised(t) == [t EXCEPT !.failed = TRUE]

\* file_read: `except ValueError` when the path is refused; otherwise
\* executor.sandbox.read_file(validated_path) and the truncated content.
FileReadTool ==
    /\ ptool.pc = "ready"
    /\ LET v == _validate_path(ptool.path)
       IN  IF ~v.ok
             THEN ptool' = ToolDone(ptool, "file_read", v, FALSE, "error", <<>>, {})
             ELSE \/ \E content \in Texts :
                        ptool' = ToolDone(ptool, "file_read", v, TRUE, "success", v.value,
                                   {Text("content", content, truncate_output(content, ptool.max))})
                  \/ \E failure \in {"FileNotFoundError", "Exception"} :
                        ptool' = SandboxRaised(
                                   ToolDone(ptool, "file_read", v, TRUE, "error", <<>>, {}))
    /\ UNCHANGED <<backend, client, container, env, life, hist, op, ttool, obs, scope, fsys,
                   factory, calls, sel, graph>>

\* file_write: the same validation, then executor.sandbox.write_file.
FileWriteTool ==
    /\ ptool.pc = "ready"
    /\ LET v == _validate_path(ptool.path)
       IN  IF ~v.ok
             THEN ptool' = ToolDone(ptool, "file_write", v, FALSE, "error", <<>>, {})
             ELSE \/ ptool' = ToolDone(ptool, "file_write", v, TRUE, "success", v.value, {})
                  \/ ptool' = SandboxRaised(
                                  ToolDone(ptool, "file_write", v, TRUE, "error", <<>>, {}))
    /\ UNCHANGED <<backend, client, container, env, life, hist, op, ttool, obs, scope, fsys,
                   factory, calls, sel, graph>>

PathInit ==
    /\ backend = "docker"
    /\ client = None
    /\ container = None
    /\ env = "none"
    /\ life = IdleLife
    /\ factory = IdleFactory
    /\ calls = IdleCalls
    /\ sel = IdleSel
    /\ graph = IdleGraph
    /\ hist = "fresh"
    /\ op = IdleOp
    /\ ttool = IdleTrunc
    /\ obs = IdleObs
    /\ scope = IdleScope
    /\ fsys = IdleFsys
    /\ \E p \in Paths : ptool = [IdleTool EXCEPT !.pc = "ready", !.path = p, !.max = MaxChars]

PathNext ==
    \/ FileReadTool
    \/ FileWriteTool

PathSpec == PathInit /\ [][PathNext]_vars

(***************************************************************************)
(* truncate_output applied again and again to its own result.              *)
(***************************************************************************)
Last(h) == h[Len(h)]

Truncate ==
    /\ ttool.pc = "on"
    /\ Len(ttool.hist) <= MaxTruncations
    /\ ttool' = [ttool EXCEPT !.hist = Append(@, truncate_output(Last(@), ttool.max))]
    /\ UNCHANGED <<backend, client, container, env, life, hist, op, ptool, obs, scope, fsys,
                   factory, calls, sel, graph>>

TruncInit ==
    /\ backend = "docker"
    /\ client = None
    /\ container = None
    /\ env = "none"
    /\ life = IdleLife
    /\ factory = IdleFactory
    /\ calls = IdleCalls
    /\ sel = IdleSel
    /\ graph = IdleGraph
    /\ hist = "fresh"
    /\ op = IdleOp
    /\ ptool = IdleTool
    /\ obs = IdleObs
    /\ scope = IdleScope
    /\ fsys = IdleFsys
    /\ \E t \in Texts, m \in 0..MaxChars : ttool = [pc |-> "on", max |-> m, hist |-> <<t>>]

TruncNext == Truncate

TruncSpec == TruncInit /\ [][TruncNext]_vars

(***************************************************************************)
(* The tools that return text: execute_shell, execute_python               *)
(* (tools/sandbox/execution.py), web_browse (tools/sandbox/browser.py) and *)
(* read_file above.  The sandbox is given by what its methods return or    *)
(* raise; an exception the tool does not catch leaves the tool ("raised"). *)
(***************************************************************************)
ResultCodes == {0, 1, 0 - 1}

\* A result is a success unless its exit code is negative (a variant).
success_NotNegative(exit_code) == exit_code >= 0

\* CommandResult.success
success(exit_code) == exit_code = 0

\* "status": "success" if result.success else "error"
StatusOf(ec) == IF success(ec) THEN "success" ELSE "error"

\* "exit_code": result.exit_code in what execute_shell returns
WithExitCode(t, ec) == [t EXCEPT !.exit_code = ec]

NoPath == [ok |-> FALSE, value |-> <<>>, error |-> "none"]

\* The stdout and stderr of a CommandResult as execute_shell / execute_python
\* return them: executor.truncate() on each.
Truncated(so, se, max) ==
    {Text("stdout", so, truncate_output(so, max)),
     Text("stderr", se, truncate_output(se, max))}

\* execute_shell: run_command, then the truncated stdout and stderr.
ShellTool ==
    /\ ptool.pc = "ready"
    /\ \/ \E ec \in ResultCodes, so \in Texts, se \in Texts :
            ptool' = WithExitCode(ToolDone(ptool, "shell", NoPath, TRUE, StatusOf(ec), <<>>,
                                                    Truncated(so, se, ptool.max)), ec)
       \/ ptool' = SandboxRaised(ToolDone(ptool, "shell", NoPath, TRUE, "raised", <<>>, {}))
    /\ UNCHANGED <<backend, client, container, env, life, hist, op, ttool, obs, scope, fsys,
                   factory, calls, sel, graph>>

\* execute_python: write_file of the script (a failure is returned as stderr,
\* truncated), run_command, list_generated_files.
PythonTool ==
    /\ ptool.pc = "ready"
    /\ \/ \E e \in Texts :
            ptool' = SandboxRaised(ToolDone(ptool, "python", NoPath, TRUE, "error", <<>>,
                                            Truncated(<<>>, e, ptool.max)))
       \/ \E ec \in ResultCodes, so \in Texts, se \in Texts :
            ptool' = ToolDone(ptool, "python", NoPath, TRUE, StatusOf(ec), <<>>,
                              Truncated(so, se, ptool.max))
       \/ ptool' = SandboxRaised(ToolDone(ptool, "python", NoPath, TRUE, "raised", <<>>, {}))
    /\ UNCHANGED <<backend, client, container, env, life, hist, op, ttool, obs, scope, fsys,
                   factory, calls, sel, graph>>

\* content[:n]
Slice(text, n) == IF Len(text) <= n THEN text ELSE SubSeq(text, 1, n)

\* web_browse: the script is written and run.  If it succeeded and printed
\* JSON, that object is returned (its content was cut by the script itself:
\* content[:max_output_chars]); otherwise
\* {"status": "error", "error": result.stderr or "Browser operation failed"}.
WebBrowseTool ==
    /\ ptool.pc = "ready"
    /\ \/ \E page \in Texts :
            ptool' = ToolDone(ptool, "web_browse", NoPath, TRUE, "success", <<>>,
                              {Text("content", page, Slice(page, ptool.max))})
       \/ \E ec \in ResultCodes, se \in Texts :
            ptool' = ToolDone(ptool, "web_browse", NoPath, TRUE, "error", <<>>,
                              IF se = <<>> THEN {} ELSE {Text("stderr", se, se)})
       \/ ptool' = SandboxRaised(ToolDone(ptool, "web_browse", NoPath, TRUE, "raised", <<>>, {}))
    /\ UNCHANGED <<backend, client, container, env, life, hist, op, ttool, obs, scope, fsys,
                   factory, calls, sel, graph>>

OutputInit ==
    /\ backend = "docker"
    /\ client = None
    /\ container = None
    /\ env = "none"
    /\ life = IdleLife
    /\ factory = IdleFactory
    /\ calls = IdleCalls
    /\ sel = IdleSel
    /\ graph = IdleGraph
    /\ hist = "fresh"
    /\ op = IdleOp
    /\ ttool = IdleTrunc
    /\ obs = IdleObs
    /\ scope = IdleScope
    /\ fsys = IdleFsys
    /\ \E p \in {<<"/", "w", "/", "x">>, <<"/", "x">>}, m \in 0..MaxChars :
          ptool = [IdleTool EXCEPT !.pc = "ready", !.path = p, !.max = m]

OutputNext ==
    \/ FileReadTool
    \/ FileWriteTool
    \/ ShellTool
    \/ PythonTool
    \/ WebBrowseTool

OutputSpec == OutputInit /\ [][OutputNext]_vars

----------------------------------------------------------------------------
Init ==
    /\ backend \in Backends
    /\ client = None
    /\ container = None
    /\ env = "none"
    /\ life = IdleLife
    /\ factory = IdleFactory
    /\ calls = IdleCalls
    /\ sel = IdleSel
    /\ graph = IdleGraph
    /\ hist = "fresh"
    /\ op = IdleOp
    /\ ptool = IdleTool
    /\ ttool = IdleTrunc
    /\ obs = IdleObs
    /\ scope = IdleScope
    /\ fsys = IdleFsys

Next ==
    \/ StartCall
    \/ StartClientOk
    \/ StartClientFails
    \/ \E found \in BOOLEAN : StartImageOk(found)
    \/ StartImageFails
    \/ StartPullOk
    \/ StartPullFails
    \/ StartCreateOk
    \/ StartCreateFails
    \/ StartContainerOk
    \/ StartContainerFails
    \/ \E out \in InitOutcomes : StartInitDone(out)
    \/ CleanupNoop
    \/ CleanupCall
    \/ CleanupRemoveOk
    \/ CleanupNotFound
    \/ \E removed \in BOOLEAN : CleanupFails(removed)
    \/ \E k \in OpKinds : OpNotStarted(k)
    \/ \E t \in Timeouts, d \in Durations, c \in ExitCodes, ig \in BOOLEAN, hg \in BOOLEAN :
          RunCommandCall(t, d, c, ig, hg)
    \/ ExecDispatch
    \/ ExecDispatchFails
    \/ ProcExits
    \/ InnerTimeoutFires
    \/ \E killed \in BOOLEAN : SdkTimeoutFires(killed)
    \/ ExecReturns
    \/ OuterTimeoutFires
    \/ Tick
    \/ \E k \in {"read_file", "write_file"} : FileOpCall(k)
    \/ \E ok \in BOOLEAN : FileOpDone(ok)

Spec == Init /\ [][Next]_vars

\* The event loop keeps running: time passes and what is due happens.
LiveSpec ==
    /\ Spec
    /\ WF_vars(Tick)
    /\ WF_vars(ExecDispatch)
    /\ WF_vars(ProcExits)
    /\ WF_vars(InnerTimeoutFires)
    /\ WF_vars(ExecReturns)
    /\ WF_vars(OuterTimeoutFires)

----------------------------------------------------------------------------
(***************************************************************************)
(* Claims about the sandbox instance (checked under Spec / LiveSpec).      *)
(***************************************************************************)
\* run_command has handed a CommandResult back.
RunReturned == op.kind = "run_command" /\ op.pc = "done" /\ op.result = "returned"

\* The command was started and ran past the timeout given to the call.
Exceeded(o) == o.ran /\ o.over

\* stderr tells the caller of a timeout: the message run_command writes itself,
\* or (read generously) the text of the error the SDK raises for its own limit.
TimeoutIndication(se) == se \in {"timeout_msg", "sdk_timeout"}

\* C1: on a started sandbox of either backend, a command that ran longer than
\* the timeout of the call is returned with exit_code -1 and a stderr that
\* tells of the timeout.
C1_TimedOutResult ==
    (RunReturned /\ op.pre = "started" /\ Exceeded(op))
        => (op.exit_code = -1 /\ TimeoutIndication(op.stderr))

\* C2: docker: when run_command returns for a command that ran past its
\* timeout, the command's process is no longer running in the container
\* (stated for the calls whose in-container `timeout N` is in force, N >= 1).
C2_ProcessGone ==
    (/\ backend = "docker" /\ RunReturned /\ op.pre = "started"
     /\ Exceeded(op) /\ InnerLimited(op.timeout))
        => ~op.alive

\* C3: every run_command call that passed the guard on a docker sandbox
\* eventually hands a CommandResult back to its caller.
C3_AlwaysReturns ==
    (backend = "docker" /\ RunInFlight) ~> RunReturned

C3_Witness ==
    /\ backend = "docker" /\ RunReturned /\ op.pre = "started"
    /\ op.over /\ op.alive
    /\ op.exit_code = -1 /\ op.stderr = "timeout_msg"

\* C4: an operation called when start() has never been called, or after
\* cleanup() has returned normally, raises the not-started failure and makes
\* no call to the engine.
C4_NoHandleRaises ==
    (op.kind # "none" /\ op.pre \in {"fresh", "cleaned"})
        => (op.pc = "done" /\ op.result = "not_started" /\ ~op.engine)

C4_Witness ==
    /\ op.kind \in OpKinds /\ op.pre = "cleaned" /\ op.result = "not_started"
    /\ env = "removed" /\ hist = "cleaned"

\* C5: once start() has raised, every operation called on the instance raises
\* the not-started failure.
C5_FailedStartNotStarted ==
    (op.kind # "none" /\ op.pre = "start_failed" /\ op.pc = "done")
        => (op.result = "not_started" /\ ~op.engine)

\* C6: an operation called after a cleanup() has begun (in flight, or failed)
\* raises the not-started failure and is not run against the environment.
C6_CleanupBegunNotStarted ==
    (op.kind # "none" /\ op.pre \in {"cleaning", "cleanup_failed"} /\ op.pc = "done")
        => (op.result = "not_started" /\ ~op.engine)

----------------------------------------------------------------------------
(***************************************************************************)
(* Claims about path validation (checked under PathSpec).                  *)
(***************************************************************************)
\* What a path means to the file system, symbolic links aside: from the root,
\* "" and "." stay, ".." goes up (the root is its own parent), a name goes down.
RECURSIVE Walk(_, _)
Walk(comps, at) ==
    IF comps = <<>> THEN at
    ELSE LET c == Head(comps)
         IN  Walk(Tail(comps),
                  IF c \in {<<>>, Dot} THEN at
                  ELSE IF c = DotDot
                    THEN (IF at = <<>> THEN at ELSE SubSeq(at, 1, Len(at) - 1))
                  ELSE Append(at, c))

Resolve(p) == Walk(Split(p), <<>>)

\* p is absolute and names /workspace or something below it.
UnderRoot(p) ==
    /\ StartsWith(p, <<"/">>)
    /\ Resolve(p) # <<>>
    /\ Resolve(p)[1] = <<"w">>

\* The path with "." and ".." resolved, written from the root.
Canonical(p) == <<"/">> \o Join(Resolve(p))

\* p begins with exactly two slashes.
TwoSlashes(p) == StartsWith(p, <<"/", "/">>) /\ ~StartsWith(p, <<"/", "/", "/">>)

FileToolDone == ptool.pc = "done" /\ ptool.name \in {"file_read", "file_write"}

\* C7: for a path that is not /workspace or below it, file_read and
\* file_write return status "error" and the sandbox is not called.
C7_OutsideRejected ==
    (FileToolDone /\ ~UnderRoot(ptool.path))
        => (ptool.status = "error" /\ ~ptool.called)

\* /workspace2/x
C7_Witness ==
    /\ FileToolDone /\ ptool.path = <<"/", "w", "x", "/", "x">>
    /\ ptool.status = "error" /\ ~ptool.called

\* C8 as stated: _validate_path accepts exactly the absolute paths that
\* resolve to /workspace or below, and hands on the normalized path.
C8_AcceptsIffUnderRoot ==
    FileToolDone =>
        /\ ptool.valid <=> UnderRoot(ptool.path)
        /\ ptool.valid => (ptool.called /\ ptool.arg = Canonical(ptool.path))
        /\ ptool.status = "success" => ptool.ret = Canonical(ptool.path)

\* C8 amended: the same, except that a path beginning with exactly two
\* slashes is refused even when it resolves below /workspace.
C8_AcceptsIffUnderRootOneSlash ==
    FileToolDone =>
        /\ ptool.valid <=> (UnderRoot(ptool.path) /\ ~TwoSlashes(ptool.path))
        /\ ptool.valid => (ptool.called /\ ptool.arg = Canonical(ptool.path))
        /\ ptool.status = "success" => ptool.ret = Canonical(ptool.path)

\* /workspace/../workspace/x is accepted as /workspace/x
C8_Witness ==
    /\ FileToolDone /\ ptool.valid /\ ptool.status = "success"
    /\ DotDot \in {Split(ptool.path)[i] : i \in 1..Len(Split(ptool.path))}
    /\ ptool.arg # ptool.path /\ ptool.ret = ptool.arg

(***************************************************************************)
(* Claims about truncation (checked under TruncSpec and OutputSpec).       *)
(***************************************************************************)
\* C9 as stated: a text longer than max is returned with length
\* max + len(marker), and truncating the result again returns it unchanged.
C9_IdempotentBounded ==
    (ttool.pc = "on" /\ Len(ttool.hist[1]) > ttool.max) =>
        \A i \in 2..Len(ttool.hist) :
            /\ Len(ttool.hist[i]) = ttool.max + Len(Marker(Len(ttool.hist[i - 1])))
            /\ i >= 3 => ttool.hist[i] = ttool.hist[i - 1]

\* C9 amended: a text longer than max is returned with length
\* max + len(marker); truncating a result again keeps the first max characters
\* and writes a new marker, so it returns the result unchanged exactly when
\* the text it came from already had that length.
C9_BoundedRewritesMarker ==
    (ttool.pc = "on" /\ Len(ttool.hist[1]) > ttool.max) =>
        \A i \in 2..Len(ttool.hist) :
            /\ Len(ttool.hist[i]) = ttool.max + Len(Marker(Len(ttool.hist[i - 1])))
            /\ SubSeq(ttool.hist[i], 1, ttool.max) = SubSeq(ttool.hist[1], 1, ttool.max)
            /\ i >= 3 => (ttool.hist[i] = ttool.hist[i - 1]
                            <=> Len(ttool.hist[i - 1]) = Len(ttool.hist[i - 2]))

C9_Witness ==
    /\ ttool.pc = "on" /\ Len(ttool.hist) >= 3
    /\ Len(ttool.hist[1]) > ttool.max
    /\ ttool.hist[3] # ttool.hist[2]

\* C10: every stdout, stderr and file-content text a tool returns is at most
\* max_output_chars plus the length of the truncation marker long.
C10_ReturnedTextBounded ==
    ptool.pc = "done" =>
        \A t \in ptool.texts : Len(t.out) <= ptool.max + Len(Marker(Len(t.raw)))

----------------------------------------------------------------------------
(***************************************************************************)
(* write_file and read_file with their data (checked under FileSpec): a    *)
(* started instance, one write_file(path, content) and a read_file(path).  *)
(* A content is a str: "a" is an ASCII character, "e" one that UTF-8       *)
(* writes in two bytes, "S" a lone surrogate, which UTF-8 cannot write.    *)
(***************************************************************************)
MaxFilePathLen == 4
MaxContentLen == 2

IsName(c) == c # <<>> /\ c # Dot /\ c # DotDot

\* The paths that name a file: every component is a name (an absolute path
\* has the empty component first).
FilePaths ==
    {p \in UNION {[1..n -> PathChars] : n \in 1..MaxFilePathLen} :
        LET c == Split(p)
        IN  \A i \in 1..Len(c) : IsName(c[i]) \/ (i = 1 /\ Len(c) > 1 /\ c[i] = <<>>)}

ContentChars == {"a", "e", "S"}
Contents == UNION {[1..n -> ContentChars] : n \in 0..MaxContentLen}

\* content.encode("utf-8") raises UnicodeEncodeError on a lone surrogate.
Encodable(text) == \A i \in 1..Len(text) : text[i] # "S"

RECURSIVE encode(_)
encode(text) ==
    IF text = <<>> THEN <<>>
    ELSE (IF Head(text) = "a" THEN <<"61">> ELSE <<"c3", "a9">>) \o encode(Tail(text))

\* bytes.decode("utf-8", errors="replace"): "R" is U+FFFD.
RECURSIVE decode(_)
decode(data) ==
    IF data = <<>> THEN <<>>
    ELSE IF Head(data) = "61" THEN <<"a">> \o decode(Tail(data))
    ELSE IF Head(data) = "c3" /\ Len(data) >= 2 /\ data[2] = "a9"
      THEN <<"e">> \o decode(Tail(Tail(data)))
    ELSE <<"R">> \o decode(Tail(data))

\* working_dir="/workspace", the directory run_command runs a command in
Cwd == << <<"w">> >>

\* The home of the archive and transfer calls: the root of the container.
Root == <<>>

Names(p) == SelectSeq(Split(p), LAMBDA c : c # <<>>)

\* Where a path leads from a directory.
At(base, p) == IF StartsWith(p, <<"/">>) THEN Names(p) ELSE base \o Names(p)

Prefixes(at) == {SubSeq(at, 1, n) : n \in 0..Len(at)}

Front(q) == SubSeq(q, 1, Len(q) - 1)

FileAt(fs, at) == {f \in fs.files : f.at = at}

\* tarinfo name: path.split("/")[-1]
TarName(path) == Last(Split(path))

\* docker: "/".join(path.split("/")[:-1]) or "/"; daytona: without the `or`.
DirPath(b, path) ==
    LET d == Join(Front(Split(path)))
    IN  IF b = "docker" /\ d = <<>> THEN <<"/">> ELSE d

\* write_file: the guard passes.  docker builds the archive at once (encode
\* may raise); daytona runs mkdir `if dir_path`.
FileWriteCall ==
    /\ fsys.pc = "ready" /\ container # None
    /\ fsys' =
         IF backend = "docker" /\ ~Encodable(fsys.content)
           THEN [fsys EXCEPT !.pc = "w_done", !.wrote = "raised"]
           ELSE [fsys EXCEPT
                   !.name = TarName(fsys.path),
                   !.dir_path = DirPath(backend, fsys.path),
                   !.data = IF backend = "docker" THEN encode(fsys.content) ELSE <<>>,
                   !.pc = IF DirPath(backend, fsys.path) # <<>> THEN "w_mkdir" ELSE "w_upload"]
    /\ UNCHANGED <<backend, client, container, env, life, hist, op, ptool, ttool, obs, scope,
                   factory, calls, sel, graph>>

\* await self.run_command(f"mkdir -p {dir_path}"): the command runs in
\* /workspace; its CommandResult is dropped.
FileWriteMkdir(served) ==
    /\ fsys.pc = "w_mkdir"
    /\ LET want == Prefixes(At(Cwd, fsys.dir_path))
           can  == served /\ \A at \in want : FileAt(fsys, at) = {}
       IN  fsys' = [fsys EXCEPT !.pc = "w_upload",
                                !.dirs = IF can THEN @ \cup want ELSE @,
                                !.faults = @ \/ ~served]
    /\ UNCHANGED <<backend, client, container, env, life, hist, op, ptool, ttool, obs, scope,
                   factory, calls, sel, graph>>

\* docker: put_archive(dir_path, tar) unpacks the member under dir_path, which
\* the engine takes from the root of the container and which must be a
\* directory.  daytona: upload_file(content.encode("utf-8"), path); the
\* service is taken to resolve a relative path as the command does.
FileWriteUpload(served) ==
    /\ fsys.pc = "w_upload"
    /\ LET dir == IF backend = "docker" THEN At(Root, fsys.dir_path)
                                        ELSE Front(At(Cwd, fsys.path))
           at  == IF backend = "docker" THEN dir \o <<fsys.name>>
                                        ELSE At(Cwd, fsys.path)
           ok  == /\ served
                  /\ backend = "daytona" => Encodable(fsys.content)
                  /\ dir \in fsys.dirs /\ at \notin fsys.dirs
           new == [at |-> at,
                   data |-> IF backend = "docker" THEN fsys.data ELSE encode(fsys.content)]
       IN  fsys' = [fsys EXCEPT !.pc = "w_done",
                                !.wrote = IF ok THEN "ok" ELSE "raised",
                                !.files = IF ok THEN (@ \ FileAt(fsys, at)) \cup {new} ELSE @,
                                !.faults = @ \/ ~served]
    /\ UNCHANGED <<backend, client, container, env, life, hist, op, ptool, ttool, obs, scope,
                   factory, calls, sel, graph>>

\* read_file.  docker: get_archive raises NotFound for a missing path
\* (FileNotFoundError); the first member of the archive of a directory is the
\* directory, extractfile gives None and FileNotFoundError is raised; other
\* errors are re-raised.  daytona: an error of download_file is a
\* FileNotFoundError if its text contains "not found" (says), else re-raised.
FileRead(served, says) ==
    /\ fsys.pc \in {"ready", "w_done"} /\ container # None
    /\ LET at   == At(IF backend = "docker" THEN Root ELSE Cwd, fsys.path)
           file == FileAt(fsys, at)
           data == (CHOOSE f \in file : TRUE).data
       IN  fsys' =
             [fsys EXCEPT
                !.pc = "r_done",
                !.existed = (file # {} \/ at \in fsys.dirs),
                !.faults = @ \/ ~served,
                !.read = IF served /\ file # {} THEN "returned"
                         ELSE IF backend = "docker"
                           THEN (IF served THEN "FileNotFoundError" ELSE "raised")
                         ELSE (IF says THEN "FileNotFoundError" ELSE "raised"),
                !.got = IF served /\ file # {} THEN decode(data) ELSE <<>>]
    /\ UNCHANGED <<backend, client, container, env, life, hist, op, ptool, ttool, obs, scope,
                   factory, calls, sel, graph>>

\* A started instance whose environment holds the workspace directory.
FileInit ==
    /\ backend \in Backends
    /\ client = "open"
    /\ container = "set"
    /\ env = "running"
    /\ life = IdleLife
    /\ factory = IdleFactory
    /\ calls = IdleCalls
    /\ sel = IdleSel
    /\ graph = IdleGraph
    /\ hist = "started"
    /\ op = IdleOp
    /\ ptool = IdleTool
    /\ ttool = IdleTrunc
    /\ obs = IdleObs
    /\ scope = IdleScope
    /\ \E p \in FilePaths, c \in Contents :
          fsys = [IdleFsys EXCEPT !.pc = "ready", !.dirs = Prefixes(Cwd),
                                  !.path = p, !.content = c]

FileNext ==
    \/ FileWriteCall
    \/ \E served \in BOOLEAN : FileWriteMkdir(served)
    \/ \E served \in BOOLEAN : FileWriteUpload(served)
    \/ \E served \in BOOLEAN, says \in BOOLEAN : FileRead(served, says)

FileSpec == FileInit /\ [][FileNext]_vars

\* C11: on a started instance whose engine serves every call, write_file(p, c)
\* succeeds for every file path p and content c, and a read_file(p) that
\* follows returns exactly c.
C11_RoundTrip ==
    (fsys.pc \in {"w_done", "r_done"} /\ fsys.wrote # "none" /\ ~fsys.faults)
        => /\ fsys.wrote = "ok"
           /\ fsys.pc = "r_done" => (fsys.read = "returned" /\ fsys.got = fsys.content)

\* C12: read_file raises FileNotFoundError only when the path does not exist
\* in the environment, and always when it does not and the engine has served
\* the call; any other failure is raised as another error.
C12_NotFoundIffMissing ==
    fsys.pc = "r_done" =>
        /\ fsys.read = "FileNotFoundError" => ~fsys.existed
        /\ (~fsys.existed /\ ~fsys.faults) => fsys.read = "FileNotFoundError"

----------------------------------------------------------------------------
(***************************************************************************)
(* The sandbox as a scoped resource (checked under ScopeSpec):             *)
(*     async with sandbox: <body>                                          *)
(* BaseSandbox.__aenter__ awaits start(), __aexit__ awaits cleanup().  The *)
(* body reads and writes files and ends normally or with an exception.     *)
(***************************************************************************)
\* __aenter__: await self.start()
AEnter ==
    /\ scope.pc = "out"
    /\ StartBegin
    /\ scope' = [scope EXCEPT !.pc = "entering", !.starts = @ + 1]

\* start() is over: __aenter__ returns self and the body begins, or the
\* exception of start() leaves the `async with` statement (no __aexit__ then).
AEnterDone ==
    /\ scope.pc = "entering" /\ life.call = "none"
    /\ scope' = [scope EXCEPT !.pc = IF hist = "started" THEN "body" ELSE "failed"]
    /\ UNCHANGED <<backend, client, container, env, life, hist, op, ptool, ttool, obs, fsys,
                   factory, calls, sel, graph>>

BodyCalls(k) == scope.pc = "body" /\ FileOpCall(k)

BodyOpDone(ok) == scope.pc = "body" /\ FileOpDone(ok)

\* The body is left: at its end, or by an exception (exc).
BodyEnds(exc) ==
    /\ scope.pc = "body" /\ op.pc \in {"idle", "done"}
    /\ scope' = [scope EXCEPT !.pc = "exiting", !.exc = exc]
    /\ UNCHANGED <<backend, client, container, env, life, hist, op, ptool, ttool, obs, fsys,
                   factory, calls, sel, graph>>

\* __aexit__(exc_type, exc_val, exc_tb): `await self.cleanup()` whatever exc_type is.
ExitCallsCleanup_OnlyOnSuccess(exc) == ~exc

ExitCallsCleanup(exc) == TRUE

AExit ==
    /\ scope.pc = "exiting"
    /\ IF ExitCallsCleanup(scope.exc)
         THEN /\ CleanupSkips \/ CleanupBegins
              /\ scope' = [scope EXCEPT !.pc = "cleaning", !.cleanups = @ + 1]
         ELSE /\ scope' = [scope EXCEPT !.pc = "exited"]
              /\ UNCHANGED <<backend, client, container, env, life, hist, op,
                             ptool, ttool, obs, fsys, factory, calls, sel, graph>>

\* cleanup() is over, __aexit__ returns (or passes on what cleanup() raised).
AExitDone ==
    /\ scope.pc = "cleaning" /\ life.call = "none"
    /\ scope' = [scope EXCEPT !.pc = "exited"]
    /\ UNCHANGED <<backend, client, container, env, life, hist, op, ptool, ttool, obs, fsys,
                   factory, calls, sel, graph>>

ScopeInit ==
    /\ backend \in Backends
    /\ client = None
    /\ container = None
    /\ env = "none"
    /\ life = IdleLife
    /\ factory = IdleFactory
    /\ calls = IdleCalls
    /\ sel = IdleSel
    /\ graph = IdleGraph
    /\ hist = "fresh"
    /\ op = IdleOp
    /\ ptool = IdleTool
    /\ ttool = IdleTrunc
    /\ obs = [IdleObs EXCEPT !.on = TRUE]
    /\ scope = [IdleScope EXCEPT !.pc = "out"]
    /\ fsys = IdleFsys

ScopeNext ==
    \/ AEnter
    \/ StartClientOk
    \/ StartClientFails
    \/ \E found \in BOOLEAN : StartImageOk(found)
    \/ StartImageFails
    \/ StartPullOk
    \/ StartPullFails
    \/ StartCreateOk
    \/ StartCreateFails
    \/ StartContainerOk
    \/ StartContainerFails
    \/ \E out \in InitOutcomes : StartInitDone(out)
    \/ AEnterDone
    \/ \E k \in {"read_file", "write_file"} : BodyCalls(k)
    \/ \E ok \in BOOLEAN : BodyOpDone(ok)
    \/ \E exc \in BOOLEAN : BodyEnds(exc)
    \/ AExit
    \/ CleanupRemoveOk
    \/ \E removed \in BOOLEAN : CleanupFails(removed)
    \/ AExitDone

ScopeSpec == ScopeInit /\ [][ScopeNext]_vars

\* C13: in `async with sandbox:` start() is called once, on entry, and
\* cleanup() once, on exit, whether the body ended normally or with an
\* exception: the block is never left without the cleanup() call.
C13_StartAndCleanupOnce ==
    /\ scope.pc \in {"entering", "body", "exiting", "failed"}
          => (scope.starts = 1 /\ scope.cleanups = 0)
    /\ scope.pc \in {"cleaning", "exited"}
          => (scope.starts = 1 /\ scope.cleanups = 1)
    /\ scope.pc = "exited" => hist \in {"cleaned", "cleanup_failed"}

C13_Witness ==
    /\ scope.pc = "exited" /\ scope.exc
    /\ scope.starts = 1 /\ scope.cleanups = 1 /\ hist = "cleaned" /\ env = "removed"

----------------------------------------------------------------------------
(***************************************************************************)
(* The instance with its record kept (checked under LifeSpec): any         *)
(* sequence of start() and cleanup() calls, with operations between them.  *)
(***************************************************************************)
LifeInit ==
    /\ backend \in Backends
    /\ client = None
    /\ container = None
    /\ env = "none"
    /\ life = IdleLife
    /\ factory = IdleFactory
    /\ calls = IdleCalls
    /\ sel = IdleSel
    /\ graph = IdleGraph
    /\ hist = "fresh"
    /\ op = IdleOp
    /\ ptool = IdleTool
    /\ ttool = IdleTrunc
    /\ obs = [IdleObs EXCEPT !.on = TRUE]
    /\ scope = IdleScope
    /\ fsys = IdleFsys

\* The commands run here exit at once, with one code or another.
LifeNext ==
    \/ StartCall
    \/ StartClientOk
    \/ StartClientFails
    \/ \E found \in BOOLEAN : StartImageOk(found)
    \/ StartImageFails
    \/ StartPullOk
    \/ StartPullFails
    \/ StartCreateOk
    \/ StartCreateFails
    \/ StartContainerOk
    \/ StartContainerFails
    \/ \E out \in InitOutcomes : StartInitDone(out)
    \/ CleanupNoop
    \/ CleanupCall
    \/ CleanupRemoveOk
    \/ CleanupNotFound
    \/ \E removed \in BOOLEAN : CleanupFails(removed)
    \/ \E k \in OpKinds : OpNotStarted(k)
    \/ \E c \in {0, 1} : RunCommandCall(MaxTimeoutTicks, 0, c, FALSE, FALSE)
    \/ ExecDispatch
    \/ ExecDispatchFails
    \/ ProcExits
    \/ ExecReturns
    \/ \E k \in {"read_file", "write_file"} : FileOpCall(k)
    \/ \E ok \in BOOLEAN : FileOpDone(ok)

LifeSpec == LifeInit /\ [][LifeNext]_vars

\* The most recent lifecycle call is a cleanup() and the one before it was too.
CleanupStates == {"cleaning", "cleaned", "cleanup_failed"}

LifecycleFailed ==
    /\ life.call = "none"
    /\ (backend = "docker" /\ hist = "start_failed") \/ hist = "cleanup_failed"

\* C15: when docker's start() or the removal / deletion inside cleanup() of
\* either backend has failed, the exception is with the caller and the
\* instance holds no client: the one it held is closed (docker) or let go.
C15_FailureReleasesClient ==
    (obs.on /\ LifecycleFailed) => (client = None /\ obs.conn # "open")

C15_Witness ==
    /\ obs.on /\ backend = "docker" /\ hist = "start_failed" /\ life.call = "none"
    /\ container = "set" /\ client = None /\ obs.conn = "closed"

\* C16: once a cleanup() is over, every client handle the instance acquired
\* is torn down, and by cleanup(): none is still open, none was replaced
\* while open, none was closed by start().
C16_TornDownOnceByCleanup ==
    (obs.on /\ life.call = "none" /\ hist \in {"cleaned", "cleanup_failed"})
        => (client = None /\ obs.conn # "open" /\ ~obs.leaked /\ ~obs.bystart)

\* C17: whenever start() has returned normally, the workspace directories
\* exist in the environment.
C17_StartedHasDirs ==
    (obs.on /\ life.call = "none" /\ hist = "started") => obs.dirs

\* The calls that block on the engine or the SDK, and docker's archive work.
\* (Building the client object, "client", is not counted among them.)
BlockingCalls ==
    {"images.get", "images.pull", "create", "start", "exec", "remove",
     "get_archive", "put_archive", "download_file", "upload_file", "tarfile"}

\* C20: every blocking engine / SDK call, and docker's archive construction
\* and extraction, runs on a worker thread, none on the event-loop thread.
C20_BlockingOnWorker ==
    (obs.on /\ obs.call \in BlockingCalls) => obs.thread = "worker"

----------------------------------------------------------------------------
\* A run_command call on a started docker sandbox is over, one way or another.
DockerRunOver ==
    /\ backend = "docker" /\ op.kind = "run_command"
    /\ op.pc = "done" /\ op.pre = "started"

\* The engine was called and no process came of it.
NotDispatched(o) == o.engine /\ ~o.ran

\* C18: docker's run_command tells three outcomes apart: a command that ran
\* and exited within the timeout is returned as a result; a command the engine
\* could not dispatch is raised to the caller; a command that ran past the
\* timeout is returned as a result, not raised.
C18_ThreeOutcomes ==
    DockerRunOver =>
        /\ (op.ran /\ ~op.over) => op.result = "returned"
        /\ NotDispatched(op) => op.result = "raised"
        /\ Exceeded(op) => op.result = "returned"

----------------------------------------------------------------------------
\* C19: when the sandbox operation under a tool raises, the tool does not
\* raise: the caller gets a result whose status is "error".
C19_ToolsNeverRaise ==
    (ptool.pc = "done" /\ ptool.failed) => ptool.status = "error"

----------------------------------------------------------------------------
(***************************************************************************)
(* The factory: DockerSandboxConfig / DaytonaSandboxConfig, create_sandbox *)
(* and create_sandbox_from_dict, _build_environment, and the lazy client   *)
(* of the cloud backend (checked under FactorySpec).                       *)
(***************************************************************************)
MaxPassVars == 2
MaxGets == 2

Absent == "absent"

\* Names of environment variables: the one on the default pass list
\* (TAVILY_API_KEY) and two others.
EnvNames == {"TAVILY_API_KEY", "HOME", "AWS_SECRET"}

\* factory.py:27
DEFAULT_PASS_ENV_VARS == <<"TAVILY_API_KEY">>

\* A map of environment variables: each name is absent or has a value, which
\* may be the empty string.
EnvMaps == [EnvNames -> {Absent, "", "v"}]

\* config.pass_env_vars: None (given is FALSE) or a list of names
NoList == [given |-> FALSE, names |-> <<>>]

PassLists ==
    {NoList} \cup {[given |-> TRUE, names |-> l] :
                     l \in UNION {[1..n -> EnvNames] : n \in 0..MaxPassVars}}

\* The whole host environment as a pass list (a variant).
pass_vars_WholeHost(pass_env_vars) == <<"TAVILY_API_KEY", "HOME", "AWS_SECRET">>

\* config.pass_env_vars if config.pass_env_vars is not None else DEFAULT_PASS_ENV_VARS
pass_vars(pass_env_vars) ==
    IF pass_env_vars.given THEN pass_env_vars.names ELSE DEFAULT_PASS_ENV_VARS

\* The loop of _build_environment over the pass list: a name that is not a
\* key of env gets os.environ.get(name) when that value is truthy.
RECURSIVE PassLoop(_, _, _)
PassLoop(e, names, host) ==
    IF names = <<>> THEN e
    ELSE LET var_name == Head(names)
             value == host[var_name]
             e2 == IF e[var_name] = Absent /\ value \notin {Absent, ""}
                     THEN [e EXCEPT ![var_name] = value]
                     ELSE e
         IN  PassLoop(e2, Tail(names), host)

_build_environment(environment, pass_env_vars, host) ==
    PassLoop(environment, pass_vars(pass_env_vars), host)

\* self._client = None in both constructors
InitialClient_Eager(class) == "open"

InitialClient(class) == None

\* config_dict.get("type", "docker"); Literal["docker"] = "docker"
sandbox_type(type) == IF type = Absent THEN "docker" ELSE type

\* DockerSandboxConfig(...) / DaytonaSandboxConfig(...): pydantic validates.
\* api_key is the one field with no default; any str is accepted for it.
\* create_sandbox_from_dict picks the class by config_dict.get("type", "docker")
\* and raises ValueError for any other type.
BuildConfig ==
    /\ factory.pc = "ready"
    /\ factory' =
         IF sandbox_type(factory.type) \notin {"docker", "daytona"}
           THEN [factory EXCEPT !.pc = "done", !.outcome = "ValueError"]
         ELSE IF factory.type = "daytona" /\ factory.api_key = Absent
           THEN [factory EXCEPT !.pc = "done", !.outcome = "ValidationError"]
         ELSE [factory EXCEPT !.pc = "config"]
    /\ UNCHANGED <<backend, client, container, env, life, hist, op, ptool, ttool,
                   obs, scope, fsys, calls, sel, graph>>

\* create_sandbox(config): the constructor of the backend class, which only
\* assigns attributes.
CreateSandbox ==
    /\ factory.pc = "config"
    /\ factory' =
         [factory EXCEPT
            !.pc = "built", !.outcome = "instance",
            !.inst = IF sandbox_type(factory.type) = "docker"
                       THEN [NoInstance EXCEPT
                               !.class = "DockerSandbox",
                               !.client = InitialClient("DockerSandbox"),
                               !.environment = _build_environment(factory.environment,
                                                 factory.pass_env_vars, factory.host)]
                       ELSE [NoInstance EXCEPT
                               !.class = "DaytonaSandbox",
                               !.client = InitialClient("DaytonaSandbox"),
                               !.api_key = factory.api_key,
                               !.server_url = factory.server_url,
                               !.target = factory.target]]
    /\ UNCHANGED <<backend, client, container, env, life, hist, op, ptool, ttool,
                   obs, scope, fsys, calls, sel, graph>>

\* The clients built for one instance, told apart.
ClientId(n) == IF n = 1 THEN "first" ELSE "later"

\* DaytonaConfig(api_key=self._api_key): the fields not given are the SDK's.
ClientConfig(inst) ==
    [api_key |-> inst.api_key, server_url |-> "sdk", target |-> "sdk"]

\* _get_client(): builds the client `if self._client is None`, returns it.
GetClient ==
    /\ factory.pc = "built" /\ factory.inst.class = "DaytonaSandbox"
    /\ factory.gets < MaxGets
    /\ factory' =
         IF factory.inst.client = None
           THEN [factory EXCEPT !.inst.client = ClientId(factory.built + 1),
                                !.built = @ + 1, !.gets = @ + 1,
                                !.returned = ClientId(factory.built + 1),
                                !.config = ClientConfig(factory.inst)]
           ELSE [factory EXCEPT !.gets = @ + 1, !.returned = factory.inst.client]
    /\ UNCHANGED <<backend, client, container, env, life, hist, op, ptool, ttool,
                   obs, scope, fsys, calls, sel, graph>>

\* The SDK is not installed: ImportError, the attribute stays None.
GetClientImportError ==
    /\ factory.pc = "built" /\ factory.inst.class = "DaytonaSandbox"
    /\ factory.inst.client = None
    /\ factory' = [factory EXCEPT !.pc = "done", !.outcome = "ImportError"]
    /\ UNCHANGED <<backend, client, container, env, life, hist, op, ptool, ttool,
                   obs, scope, fsys, calls, sel, graph>>

FactoryInit ==
    /\ backend = "docker"
    /\ client = None
    /\ container = None
    /\ env = "none"
    /\ life = IdleLife
    /\ hist = "fresh"
    /\ op = IdleOp
    /\ ptool = IdleTool
    /\ ttool = IdleTrunc
    /\ obs = IdleObs
    /\ scope = IdleScope
    /\ fsys = IdleFsys
    /\ calls = IdleCalls
    /\ sel = IdleSel
    /\ graph = IdleGraph
    /\ \/ \E e \in EnvMaps, h \in EnvMaps, p \in PassLists,
             t \in {"docker", Absent}, via \in {"config", "dict"} :
            /\ via = "config" => t = "docker"
            /\ factory = [IdleFactory EXCEPT !.pc = "ready", !.via = via, !.type = t,
                                             !.environment = e, !.host = h,
                                             !.pass_env_vars = p]
       \/ \E k \in {Absent, "", "key"}, u \in {"https://api.daytona.io", "custom"},
             g \in {"us", "eu"}, via \in {"config", "dict"} :
            factory = [IdleFactory EXCEPT !.pc = "ready", !.via = via, !.type = "daytona",
                                          !.api_key = k, !.server_url = u, !.target = g]
       \/ factory = [IdleFactory EXCEPT !.pc = "ready", !.via = "dict", !.type = "podman"]

FactoryNext ==
    \/ BuildConfig
    \/ CreateSandbox
    \/ GetClient
    \/ GetClientImportError

FactorySpec == FactoryInit /\ [][FactoryNext]_vars

\* C21: a cloud configuration without an API key fails when it is built, and
\* no backend object comes of it; an object the factory did build has made no
\* engine or network call and holds neither a client nor an environment
\* handle (until something is called on it).
C21_ValidatedBeforeEngine ==
    /\ (factory.type = "daytona" /\ factory.api_key = Absent /\ factory.pc # "ready")
          => (factory.outcome = "ValidationError" /\ factory.inst = NoInstance)
    /\ factory.pc \in {"ready", "config"} => factory.inst = NoInstance
    /\ (factory.pc = "built" /\ factory.gets = 0)
          => /\ factory.engine = 0
             /\ factory.inst.client = None
             /\ factory.inst.handle = None

C21_Witness ==
    /\ factory.pc = "built" /\ factory.gets = 0 /\ factory.via = "dict"
    /\ factory.inst.class = "DaytonaSandbox" /\ factory.inst.client = None

\* What the factory gave the docker instance as its environment.
DockerBuilt == factory.pc = "built" /\ factory.inst.class = "DockerSandbox"

\* The allow-list of the configuration: the names of pass_env_vars if it is
\* given, otherwise the one default name.
AllowList ==
    IF factory.pass_env_vars.given
      THEN {factory.pass_env_vars.names[i] : i \in DOMAIN factory.pass_env_vars.names}
      ELSE {"TAVILY_API_KEY"}

\* Two hosts agree on the names of the allow-list.
SameOnPassList(h1, h2) == \A n \in AllowList : h1[n] = h2[n]

OnPassList(n) == n \in AllowList

\* C22: the docker environment map keeps every explicit entry unchanged, has
\* a name from the host only when the name is on the pass list, is not set
\* explicitly and has a non-empty host value, and is the same map on any host
\* that agrees with this one on the names of the pass list.
C22_EnvFromAllowListOnly ==
    DockerBuilt =>
        /\ \A n \in EnvNames :
              factory.inst.environment[n] =
                  IF factory.environment[n] # Absent THEN factory.environment[n]
                  ELSE IF OnPassList(n) /\ factory.host[n] \notin {Absent, ""}
                         THEN factory.host[n]
                  ELSE Absent
        /\ \A h \in EnvMaps :
              SameOnPassList(h, factory.host) =>
                  _build_environment(factory.environment, factory.pass_env_vars, h)
                      = factory.inst.environment

C22_Witness ==
    /\ DockerBuilt
    /\ ~factory.pass_env_vars.given
    /\ factory.environment["TAVILY_API_KEY"] = Absent
    /\ factory.host["TAVILY_API_KEY"] = "v" /\ factory.host["AWS_SECRET"] = "v"
    /\ factory.inst.environment["TAVILY_API_KEY"] = "v"
    /\ factory.inst.environment["AWS_SECRET"] = Absent

\* C26: the cloud backend has no client until _get_client is called, a second
\* call returns the client of the first, and the configuration the client is
\* built from carries the instance's api_key, server_url and target.
C26_LazyClientWithConfig ==
    (factory.pc = "built" /\ factory.inst.class = "DaytonaSandbox") =>
        /\ factory.gets = 0 => factory.inst.client = None
        /\ factory.gets > 0 =>
              /\ factory.built = 1 /\ factory.returned = ClientId(1)
              /\ factory.config.api_key = factory.inst.api_key
              /\ factory.config.server_url = factory.inst.server_url
              /\ factory.config.target = factory.inst.target

----------------------------------------------------------------------------
(***************************************************************************)
(* _escape_css_selector and the script of web_browse (checked under        *)
(* SelectorSpec).  A text is a sequence of characters.                     *)
(***************************************************************************)
MaxSelectorLen == 3

Backslash == "\\"
DoubleQuote == "\""
CR == "\r"
LF == "\n"

SelectorChars == {Backslash, DoubleQuote, CR, LF, "a"}
Selectors == UNION {[1..n -> SelectorChars] : n \in 0..MaxSelectorLen}

\* str.replace(old, new) for a one-character old
RECURSIVE replace(_, _, _)
replace(text, old, new) ==
    IF text = <<>> THEN <<>>
    ELSE (IF Head(text) = old THEN new ELSE <<Head(text)>>) \o replace(Tail(text), old, new)

\* re.sub(r'[\r\n]', ' ', text)
RECURSIVE sub_crlf(_)
sub_crlf(text) ==
    IF text = <<>> THEN <<>>
    ELSE <<IF Head(text) \in {CR, LF} THEN " " ELSE Head(text)>> \o sub_crlf(Tail(text))

\* Quotes escaped before backslashes (a variant).
_escape_css_selector_QuotesFirst(selector) ==
    sub_crlf(replace(replace(selector, DoubleQuote, <<Backslash, DoubleQuote>>),
                     Backslash, <<Backslash, Backslash>>))

_escape_css_selector(selector) ==
    sub_crlf(replace(replace(selector, Backslash, <<Backslash, Backslash>>),
                     DoubleQuote, <<Backslash, DoubleQuote>>))

\* web_browse builds extract_code: `if selector:` the escaped selector goes
\* between the double quotes of query_selector_all("..."), otherwise no
\* selector is in the script.
BuildExtractCode ==
    /\ sel.pc = "ready"
    /\ sel' = IF sel.selector # <<>>
                THEN [sel EXCEPT !.pc = "built", !.embedded = TRUE,
                                 !.safe_selector = _escape_css_selector(sel.selector)]
                ELSE [sel EXCEPT !.pc = "built"]
    /\ UNCHANGED <<backend, client, container, env, life, hist, op, ptool, ttool,
                   obs, scope, fsys, factory, calls, graph>>

SelectorInit ==
    /\ backend = "docker"
    /\ client = None
    /\ container = None
    /\ env = "none"
    /\ life = IdleLife
    /\ hist = "fresh"
    /\ op = IdleOp
    /\ ptool = IdleTool
    /\ ttool = IdleTrunc
    /\ obs = IdleObs
    /\ scope = IdleScope
    /\ fsys = IdleFsys
    /\ factory = IdleFactory
    /\ calls = IdleCalls
    /\ graph = IdleGraph
    /\ \E s \in Selectors : sel = [IdleSel EXCEPT !.pc = "ready", !.selector = s]

SelectorNext == BuildExtractCode

SelectorSpec == SelectorInit /\ [][SelectorNext]_vars

\* Read as the body of a double-quoted string literal, from the left: a
\* backslash takes the character after it with it, and outside such a pair
\* there is no double quote, carriage return or line feed.
RECURSIVE StaysInLiteral(_)
StaysInLiteral(text) ==
    IF text = <<>> THEN TRUE
    ELSE IF Head(text) = Backslash
           THEN Len(text) >= 2 /\ StaysInLiteral(Tail(Tail(text)))
    ELSE Head(text) \notin {DoubleQuote, CR, LF} /\ StaysInLiteral(Tail(text))

\* C24: the text embedded for a selector holds no carriage return or line
\* feed, and each double quote and backslash in it is escaped by a backslash,
\* so the text cannot end the string literal it is put in.
C24_SelectorStaysInLiteral ==
    sel.embedded =>
        /\ \A i \in 1..Len(sel.safe_selector) : sel.safe_selector[i] \notin {CR, LF}
        /\ StaysInLiteral(sel.safe_selector)

C24_Witness ==
    /\ sel.embedded
    /\ sel.selector = <<"a", DoubleQuote, LF>>
    /\ sel.safe_selector = <<"a", Backslash, DoubleQuote, " ">>

----------------------------------------------------------------------------
\* C25: a CommandResult is a success exactly when its exit_code is 0, so the
\* timed-out result (exit_code -1) is not one, and the shell tool reports
\* "success" exactly for a command whose exit_code is 0.
C25_SuccessIffZero ==
    (ptool.pc = "done" /\ ptool.name = "shell" /\ ~ptool.failed) =>
        /\ ptool.status = "success" <=> ptool.exit_code = 0
        /\ ptool.status \in {"success", "error"}
        /\ ptool.exit_code = 0 - 1 => ptool.status = "error"

C25_Witness ==
    /\ ptool.pc = "done" /\ ptool.name = "shell" /\ ~ptool.failed
    /\ ptool.exit_code = 1 /\ ptool.status = "error"

----------------------------------------------------------------------------
(***************************************************************************)
(* execute_python and web_browse as coroutines: each await is a step, and  *)
(* two calls on one sandbox take their steps in any order (checked under   *)
(* CallsSpec).                                                             *)
(***************************************************************************)
MaxCalls == 2

CallIds == 1..MaxCalls
ScriptTools == {"python", "web_browse"}
Codes == {"code_a", "code_b"}
OutputNames == {"plot.png"}

\* base.py:39 DEFAULT_SCRIPT_PATH; browser.py:133 script_path
ScriptPath(tool) ==
    IF tool = "python" THEN "/workspace/temp/_script.py"
    ELSE "/workspace/temp/_browser_script.py"

ScriptPaths == {ScriptPath(t) : t \in ScriptTools}

\* [f"/workspace/output/{f}" for f in files]
GeneratedPaths(names) == {<<"/workspace/output/", n>> : n \in names}

SetCall(i, c) == [calls EXCEPT !.call[i] = c]

Step(c, name) == [c EXCEPT !.steps = Append(@, name)]

\* The tool is called with its code (web_browse: the script it generated).
ToolCall(i, tool, code) ==
    /\ calls.on /\ calls.call[i].pc = "idle"
    /\ calls' = SetCall(i, [IdleCall EXCEPT !.pc = "write", !.tool = tool, !.code = code])
    /\ UNCHANGED <<backend, client, container, env, life, hist, op, ptool, ttool,
                   obs, scope, fsys, factory, sel, graph>>

\* await executor.sandbox.write_file(path, code).  execute_python catches a
\* failure and returns; web_browse lets it pass.
ScriptWrite(i, ok) ==
    /\ calls.on /\ calls.call[i].pc = "write"
    /\ LET c == Step(calls.call[i], "write")
       IN  calls' =
             IF ok
               THEN [SetCall(i, [c EXCEPT !.pc = "run", !.wrote = "ok"])
                       EXCEPT !.script[ScriptPath(c.tool)] = c.code]
             ELSE IF c.tool = "python"
               THEN SetCall(i, [c EXCEPT !.pc = "done", !.wrote = "failed",
                                         !.status = "error", !.generated_files = {}])
             ELSE SetCall(i, [c EXCEPT !.pc = "done", !.wrote = "failed",
                                       !.status = "raised"])
    /\ UNCHANGED <<backend, client, container, env, life, hist, op, ptool, ttool,
                   obs, scope, fsys, factory, sel, graph>>

\* The listing step follows a run that failed too (a variant skips it).
ListsAfter_OnlyOnSuccess(rc) == rc = 0

\* generated_files = await executor.list_generated_files(), unconditionally
ListsAfter(rc) == TRUE

\* What the tool returns: "success" if result.success else "error"
Returns(c) == [c EXCEPT !.pc = "done", !.status = StatusOf(c.rc)]

\* await executor.sandbox.run_command("... python3 <path>"): the interpreter
\* reads the file that is at the path now, and the script may leave a file in
\* /workspace/output.  run_command may also raise, which neither tool catches.
ScriptRun(i, rc, made) ==
    /\ calls.on /\ calls.call[i].pc = "run"
    /\ LET c == [Step(calls.call[i], "run") EXCEPT
                    !.ran = calls.script[ScriptPath(calls.call[i].tool)], !.rc = rc]
       IN  calls' =
             [SetCall(i, IF c.tool = "python" /\ ListsAfter(rc)
                           THEN [c EXCEPT !.pc = "list"]
                           ELSE Returns(c))
                EXCEPT !.output = @ \cup made]
    /\ UNCHANGED <<backend, client, container, env, life, hist, op, ptool, ttool,
                   obs, scope, fsys, factory, sel, graph>>

ScriptRunRaises(i) ==
    /\ calls.on /\ calls.call[i].pc = "run"
    /\ calls' = SetCall(i, [Step(calls.call[i], "run") EXCEPT !.pc = "done",
                                                              !.status = "raised"])
    /\ UNCHANGED <<backend, client, container, env, life, hist, op, ptool, ttool,
                   obs, scope, fsys, factory, sel, graph>>

\* list_generated_files(): `ls -1 /workspace/output`; a result that is not a
\* success and an exception both give [].
ListGeneratedFiles(i, ok) ==
    /\ calls.on /\ calls.call[i].pc = "list"
    /\ LET c == Step(calls.call[i], "list")
       IN  calls' = SetCall(i, Returns([c EXCEPT
                        !.listed = IF ok THEN "ok" ELSE "failed",
                        !.generated_files = IF ok THEN GeneratedPaths(calls.output) ELSE {}]))
    /\ UNCHANGED <<backend, client, container, env, life, hist, op, ptool, ttool,
                   obs, scope, fsys, factory, sel, graph>>

CallsInit ==
    /\ backend = "docker"
    /\ client = None
    /\ container = None
    /\ env = "none"
    /\ life = IdleLife
    /\ hist = "fresh"
    /\ op = IdleOp
    /\ ptool = IdleTool
    /\ ttool = IdleTrunc
    /\ obs = IdleObs
    /\ scope = IdleScope
    /\ fsys = IdleFsys
    /\ factory = IdleFactory
    /\ sel = IdleSel
    /\ graph = IdleGraph
    /\ calls = [on |-> TRUE,
                call |-> [i \in CallIds |-> IdleCall],
                script |-> [p \in ScriptPaths |-> "none"],
                output |-> {}]

CallsNext ==
    \/ \E i \in CallIds, t \in ScriptTools, code \in Codes : ToolCall(i, t, code)
    \/ \E i \in CallIds, ok \in BOOLEAN : ScriptWrite(i, ok)
    \/ \E i \in CallIds, rc \in {0, 1}, made \in SUBSET OutputNames : ScriptRun(i, rc, made)
    \/ \E i \in CallIds : ScriptRunRaises(i)
    \/ \E i \in CallIds, ok \in BOOLEAN : ListGeneratedFiles(i, ok)

CallsSpec == CallsInit /\ [][CallsNext]_vars

IsPrefix(a, b) == Len(a) <= Len(b) /\ \A k \in 1..Len(a) : a[k] = b[k]

PythonCall(i) == calls.on /\ calls.call[i].tool = "python"

\* C23: the code-execution tool writes the script, then runs it, then lists
\* the output directory.  A failed write ends the call with status "error"
\* and no generated files, with nothing run or listed; after a run that
\* returned, with any exit code, the listing is made; a listing that failed
\* gives no generated files and leaves the status to the exit code.
C23_WriteRunList ==
    \A i \in CallIds : PythonCall(i) =>
        LET c == calls.call[i]
        IN  /\ IsPrefix(c.steps, <<"write", "run", "list">>)
            /\ c.wrote = "failed"
                  => (c.status = "error" /\ c.generated_files = {} /\ c.steps = <<"write">>)
            /\ (c.pc = "done" /\ c.status # "raised" /\ c.wrote = "ok")
                  => c.steps = <<"write", "run", "list">>
            /\ c.listed = "failed"
                  => (c.generated_files = {} /\ c.status = (IF c.rc = 0 THEN "success" ELSE "error"))
            /\ (c.pc = "done" /\ c.listed = "ok")
                  => \E names \in SUBSET OutputNames : c.generated_files = GeneratedPaths(names)

C23_Witness ==
    /\ PythonCall(1) /\ calls.call[1].pc = "done"
    /\ calls.call[1].rc = 1 /\ calls.call[1].listed = "ok"
    /\ calls.call[1].generated_files = GeneratedPaths({"plot.png"})
    /\ calls.call[1].status = "error"

\* C29: each call runs the script it was given: what the interpreter of a
\* call read at the script path is the code that call wrote.
C29_RunsOwnScript ==
    \A i \in CallIds :
        (calls.on /\ calls.call[i].ran # "none") => calls.call[i].ran = calls.call[i].code

----------------------------------------------------------------------------
\* The result run_command builds for a timeout: exit_code -1 and a stderr
\* that begins "Command timed out".
TimedOutResult(o) == o.exit_code = 0 - 1 /\ o.stderr = "timeout_msg"

\* C27: docker's run_command returns the timed-out result only for a command
\* that ran past the timeout of the call; a command that ended within it is
\* returned with its own exit code, 124 included.
C27_TimedOutOnlyWhenOver ==
    (backend = "docker" /\ RunReturned /\ op.pre = "started" /\ TimedOutResult(op))
        => Exceeded(op)

\* C28: for every timeout above 0, fractions of a second included, the limit
\* inside the environment, int(timeout), is at least one second and no longer
\* than the wait on the caller's side, so it is in force and fires first.
C28_InnerLimitInForce ==
    (op.kind = "run_command" /\ op.pc \in {"queued", "exec"} /\ op.timeout > 0)
        => /\ InnerTicks(op.timeout) >= TicksPerSec
           /\ InnerTicks(op.timeout) <= OuterTicks(backend, op.timeout)
           /\ InnerLimited(op.timeout)

----------------------------------------------------------------------------
(***************************************************************************)
(* The agent graph of sandbox_agent_workflow: START -> agent, agent ->     *)
(* tools or END by should_continue, tools -> agent (checked under          *)
(* GraphSpec).  The LLM answers each call with any number of tool calls,   *)
(* or the call raises.                                                     *)
(***************************************************************************)
MaxIterations == 5
MaxToolCalls == 2

\* register.py:244  recursion_limit = config.max_iterations * 2 + 10
recursion_limit(max_iterations) == max_iterations * 2 + 10

\* An agent that never takes the limit branch (a variant).
LimitReached_Never(iteration, max_iterations) == FALSE

\* register.py:183  if iteration >= config.max_iterations
LimitReached(iteration, max_iterations) == iteration >= max_iterations

\* should_continue: "tools" if the last message has tool calls, else END
should_continue(tool_calls) == IF tool_calls > 0 THEN "tools" ELSE "end"

\* The graph runs a node only while the steps taken are below the recursion
\* limit; otherwise the invocation ends with GraphRecursionError.
OutOfSteps == graph.steps >= recursion_limit(graph.max_iterations)

Stopped == [graph EXCEPT !.pc = "recursion_error"]

\* agent_node at the iteration limit: a message without tool calls, the
\* count unchanged; should_continue then gives END.
AgentAtLimit ==
    /\ graph.pc = "agent"
    /\ LimitReached(graph.iteration_count, graph.max_iterations)
    /\ graph' = IF OutOfSteps THEN Stopped
                ELSE [graph EXCEPT !.messages = @ + 1, !.tool_calls = 0,
                                   !.limited = TRUE, !.steps = @ + 1,
                                   !.pc = should_continue(0)]
    /\ UNCHANGED <<backend, client, container, env, life, hist, op, ptool, ttool,
                   obs, scope, fsys, factory, calls, sel>>

\* agent_node below the limit: the LLM is called and its response, with n
\* tool calls, is appended; iteration_count goes up by one.
AgentCallsLLM(n) ==
    /\ graph.pc = "agent"
    /\ ~LimitReached(graph.iteration_count, graph.max_iterations)
    /\ graph' = IF OutOfSteps THEN Stopped
                ELSE [graph EXCEPT !.llm_calls = @ + 1, !.iteration_count = @ + 1,
                                   !.messages = @ + 1, !.tool_calls = n,
                                   !.limited = FALSE, !.steps = @ + 1,
                                   !.pc = should_continue(n)]
    /\ UNCHANGED <<backend, client, container, env, life, hist, op, ptool, ttool,
                   obs, scope, fsys, factory, calls, sel>>

\* The LLM call raises: the invocation ends with that exception, which
\* _response_fn turns into its return value.
AgentLLMRaises ==
    /\ graph.pc = "agent"
    /\ ~LimitReached(graph.iteration_count, graph.max_iterations)
    /\ graph' = IF OutOfSteps THEN Stopped
                ELSE [graph EXCEPT !.llm_calls = @ + 1, !.steps = @ + 1, !.pc = "error"]
    /\ UNCHANGED <<backend, client, container, env, life, hist, op, ptool, ttool,
                   obs, scope, fsys, factory, calls, sel>>

\* ToolNode: one message per tool call of the last message, then the agent.
ToolsRun ==
    /\ graph.pc = "tools"
    /\ graph' = IF OutOfSteps THEN Stopped
                ELSE [graph EXCEPT !.messages = @ + graph.tool_calls,
                                   !.steps = @ + 1, !.pc = "agent"]
    /\ UNCHANGED <<backend, client, container, env, life, hist, op, ptool, ttool,
                   obs, scope, fsys, factory, calls, sel>>

\* _response_fn: messages = [HumanMessage], iteration_count = 0; START -> agent
GraphInit ==
    /\ backend = "docker"
    /\ client = None
    /\ container = None
    /\ env = "none"
    /\ life = IdleLife
    /\ hist = "fresh"
    /\ op = IdleOp
    /\ ptool = IdleTool
    /\ ttool = IdleTrunc
    /\ obs = IdleObs
    /\ scope = IdleScope
    /\ fsys = IdleFsys
    /\ factory = IdleFactory
    /\ calls = IdleCalls
    /\ sel = IdleSel
    /\ \E m \in 0..MaxIterations :
          graph = [IdleGraph EXCEPT !.pc = "agent", !.max_iterations = m, !.messages = 1]

GraphNext ==
    \/ AgentAtLimit
    \/ \E n \in 0..MaxToolCalls : AgentCallsLLM(n)
    \/ AgentLLMRaises
    \/ ToolsRun

\* The graph runner awaits each node in turn.
GraphSpec == GraphInit /\ [][GraphNext]_vars /\ WF_vars(GraphNext)

GraphOver == graph.pc \in {"end", "error"}

GraphBounded ==
    /\ graph.llm_calls <= graph.max_iterations
    /\ graph.limited => (graph.tool_calls = 0 /\ graph.pc = "end")
    /\ graph.steps < recursion_limit(graph.max_iterations)
    /\ graph.pc # "recursion_error"

\* C30: whatever the LLM answers, one invocation of the graph ends: with at
\* most max_iterations LLM calls, with a message without tool calls (and so
\* END) from the agent step taken at the iteration limit, and with fewer
\* graph steps than the recursion limit 2 * max_iterations + 10.
C30_InvocationTerminates ==
    [](graph.pc # "off" => GraphBounded) /\ <>GraphOver

C30_Witness ==
    /\ graph.pc = "end" /\ graph.limited
    /\ graph.max_iterations >= 2
    /\ graph.llm_calls = graph.max_iterations
    /\ graph.steps = 2 * graph.max_iterations + 1

====
